---- MODULE Spec2Model ----
(***************************************************************************)
(* battlesnake-manager: the per-repository build coordinator (webhook,     *)
(* coalescing queue, deploy procedure), the docker runtime client, the     *)
(* container state cache and the activation path.                          *)
(*                                                                         *)
(* The revision modelled is the one that forms a consistent program:       *)
(* main (src/unnamed/part_000), api/battlesnake (part_002), api/github     *)
(* (part_003), docker/init (part_004) and docker/cache.go.  The files      *)
(* src/api/github.go, src/docker/init.go and part_001 are an older         *)
(* revision of part_003, part_004 and part_000.                            *)
(*                                                                         *)
(* Strings whose characters the code inspects (repository names, refs,     *)
(* branch names) are sequences of one-character strings.                   *)
(***************************************************************************)
EXTENDS Integers, Sequences, FiniteSets, TLC

\* ----------------------------------------------------------------- bounds
\* webhook handler goroutines that may be alive at once
MaxHooks == 2
\* image ids the docker daemon hands out
MaxImageId == 2
\* the clock stops advancing here (seconds)
MaxTime == 120
\* proxy handler goroutines
MaxProxies == 1

\* ------------------------------------------------------ program constants
\* cache.go:70  60 * time.Second
StaleAfter == 60
\* main.go:64  PAUSE_DELAY = time.Minute, in seconds
PAUSE_DELAY == 60
\* main.go:65  STOP_DELAY = time.Hour, in seconds
STOP_DELAY == 3600
\* main.go:62  nextRunner := time.Minute, in seconds
DefaultDelay == 60
\* main.go:68  time.Now().Sub(time.Time{}) saturates at the largest Duration
\* (math.MaxInt64 nanoseconds, some 292 years); here the largest number of
\* seconds TLC can hold, which is as far beyond both delays
SinceZeroTime == 2147483647
\* seconds the clock advances in one Tick
TickStep == 30

\* ---------------------------------------------------------------- strings
RepoA == <<"a", "/", "b">>
\* a configuration entry whose name happens to be the container name of RepoA
BsAB == <<"b", "s", "-", "a", "-", "b">>
\* a repository nobody registered
RepoU == <<"u", "/", "v">>

\* strings.ReplaceAll(repoName, "/", "-")
ReplaceSlash(s) == [i \in 1..Len(s) |-> IF s[i] = "/" THEN "-" ELSE s[i]]

\* init.go:19-21
RepoNameToContainerName(repoName) == <<"b", "s", "-">> \o ReplaceSlash(repoName)

\* every container name the program can hand to the docker daemon
ContainerNames ==
    {RepoA, BsAB, RepoNameToContainerName(RepoA), RepoNameToContainerName(BsAB)}

RECURSIVE SplitFrom(_, _)
SplitFrom(s, cur) ==
    IF s = <<>> THEN <<cur>>
    ELSE IF Head(s) = "/" THEN <<cur>> \o SplitFrom(Tail(s), <<>>)
    ELSE SplitFrom(Tail(s), Append(cur, Head(s)))
\* strings.Split(s, "/")
Split(s) == SplitFrom(s, <<>>)

\* ------------------------------------------------------------------ state
VARIABLES
    config,           \* /data/battlesnakes.json as decoded by loadConfig
    containerStates,  \* docker/cache.go: name -> ContainerState
    buildConfig,      \* api/github: repoName -> buildConfigT (mutex as Locked)
    dockerd,          \* the docker daemon: container name -> its state
    dockerImages,     \* the docker daemon: rows of `docker images <repo>`
    now,              \* wall clock, seconds
    main,             \* the main goroutine (loadConfig's second loop, Serve)
    hooks,            \* githubWebhookHandler goroutines
    deploys,          \* deployApplication / DeployApplicationPublic goroutines
    stats,            \* per repository: runs begun (lock taken or re-run), re-runs
    proxies,          \* battleSnakePoxyHandler goroutines
    sched,            \* the goroutine looping over stopOldContainersJob
    call,             \* a caller of package docker: the call in progress or ended
    containerStateMutext,  \* cache.go:17, the RWMutex: its writer and its readers
    threads           \* goroutines inside the functions of cache.go, statement by statement

vars == <<config, containerStates, buildConfig, dockerd, dockerImages, now,
          main, hooks, deploys, stats, proxies, sched, call, containerStateMutext,
          threads>>

Nil == -1
ErrNone == "nil"
ErrorNotRegistered == "Container not registered"
ErrorDoesNotExist == "Container does not exist"
ErrorRuntime == "Returned Status Code 500"

\* ------------------------------------------------------- docker/cache.go
\* ContainerState{}: the zero value RegisterContainer stores
EmptyState ==
    [Running |-> FALSE, Paused |-> FALSE, LastUsed |-> Nil, IPAddress |-> "",
     LastUpdate |-> Nil]

\* a check that takes every name for registered
IsRegisteredAlways(name) == TRUE

IsRegistered(name) == name \in DOMAIN containerStates

\* a register that stores the zero value over an existing entry
RegisterContainerOverwrite(cs, name) ==
    [n \in DOMAIN cs \cup {name} |-> IF n = name THEN EmptyState ELSE cs[n]]

\* cache.go:73-81
RegisterContainer(cs, name) ==
    IF name \in DOMAIN cs THEN cs
    ELSE [n \in DOMAIN cs \cup {name} |-> IF n = name THEN EmptyState ELSE cs[n]]

\* stale from the 60th second on
IsStaleAtThreshold(name) ==
    IF name \notin DOMAIN containerStates THEN TRUE
    ELSE IF containerStates[name].LastUpdate = Nil THEN TRUE
    ELSE now >= containerStates[name].LastUpdate + StaleAfter

\* cache.go:59-71
IsStale(name) ==
    IF name \notin DOMAIN containerStates THEN TRUE
    ELSE IF containerStates[name].LastUpdate = Nil THEN TRUE
    ELSE now > containerStates[name].LastUpdate + StaleAfter

updateState(cs, name, running, paused, ip) ==
    IF name \notin DOMAIN cs THEN cs
    ELSE [cs EXCEPT ![name] = [@ EXCEPT !.Running = running, !.Paused = paused,
                                        !.IPAddress = ip, !.LastUpdate = now]]
updateRunning(cs, name, running, paused) ==
    IF name \notin DOMAIN cs THEN cs
    ELSE [cs EXCEPT ![name] = [@ EXCEPT !.Running = running, !.Paused = paused,
                                        !.LastUpdate = now]]
\* an update of the paused flag that leaves the refresh time alone
updatePausedNoStamp(cs, name, paused) ==
    IF name \notin DOMAIN cs THEN cs
    ELSE [cs EXCEPT ![name] = [@ EXCEPT !.Paused = paused]]

updatePaused(cs, name, paused) ==
    IF name \notin DOMAIN cs THEN cs
    ELSE [cs EXCEPT ![name] = [@ EXCEPT !.Paused = paused, !.LastUpdate = now]]
UpdateUsed(cs, name) ==
    IF name \notin DOMAIN cs THEN cs
    ELSE [cs EXCEPT ![name] = [@ EXCEPT !.LastUsed = now]]

\* a caller of the package: the function called, its argument, where it
\* stands, the error it returned, the requests it sent to the daemon
\* (action: the command of StartContainer, StopContainer, PauseContainer or
\* UnpauseContainer being executed; pend: the answer of an inspect)
IdleCall ==
    [pc |-> "idle", op |-> "", name |-> <<>>, action |-> "", err |-> ErrNone,
     sent |-> <<>>,
     pend |-> [err |-> ErrNone, Running |-> FALSE, Paused |-> FALSE, ip |-> ""]]

\* the goroutines that execute functions of cache.go and of init.go with
\* the lock statements of cache.go as steps of their own
Threads == {"g1", "g2", "g3"}

\* fn: the function entered; mut: the cache mutation being executed, with
\* its arguments; state, found: `state, found := containerStates[name]`;
\* reading: what the goroutine does under the read lock; cont: where it goes
\* on after the mutation; toStop, toPause, action: as in stopOldContainersJob
IdleThread ==
    [pc |-> "idle", fn |-> "", name |-> <<>>,
     mut |-> [fn |-> "", running |-> FALSE, paused |-> FALSE, ip |-> ""],
     state |-> EmptyState, found |-> FALSE, reading |-> "", cont |-> "",
     toStop |-> {}, toPause |-> {}, action |-> "", err |-> ErrNone]

\* ------------------------------------------------------ the docker daemon
NoContainer ==
    [exists |-> FALSE, running |-> FALSE, paused |-> FALSE, ip |-> "", image |-> 0]
RunningContainer ==
    [exists |-> TRUE, running |-> TRUE, paused |-> FALSE, ip |-> "10.0.0.2", image |-> 1]

\* GET /containers/<name>/json as dockerExecJson sees it: the error, and the
\* decoded ContainerStateJson.  fail: the transport or the daemon failed.
InspectResult(name, fail) ==
    IF fail THEN [err |-> ErrorRuntime, Running |-> FALSE, Paused |-> FALSE, ip |-> ""]
    ELSE IF ~dockerd[name].exists
         THEN [err |-> ErrorDoesNotExist, Running |-> FALSE, Paused |-> FALSE, ip |-> ""]
    ELSE [err |-> ErrNone, Running |-> dockerd[name].running,
          Paused |-> dockerd[name].paused, ip |-> dockerd[name].ip]

\* POST /containers/<name>/<action> as dockerExecCmd sees it: 204 and 304 are
\* success, 404 is ErrorDoesNotExist, anything else an error.
CmdStatus(name, action, fail) ==
    IF fail THEN 500
    ELSE IF ~dockerd[name].exists THEN 404
    ELSE CASE action = "start" ->
                IF dockerd[name].paused THEN 409
                ELSE IF dockerd[name].running THEN 304 ELSE 204
           [] action = "stop" ->
                IF dockerd[name].running THEN 204 ELSE 304
           [] action = "pause" ->
                IF dockerd[name].running /\ ~dockerd[name].paused THEN 204 ELSE 409
           [] action = "unpause" ->
                IF dockerd[name].running /\ dockerd[name].paused THEN 204 ELSE 409
           [] OTHER -> 500

dockerExecCmd(name, action, fail) ==
    LET code == CmdStatus(name, action, fail)
    IN  IF code = 204 \/ code = 304 THEN ErrNone
        ELSE IF code = 404 THEN ErrorDoesNotExist
        ELSE ErrorRuntime

\* what the daemon does to the container when it answers 204
CmdEffect(name, action, fail) ==
    IF CmdStatus(name, action, fail) # 204 THEN dockerd
    ELSE CASE action = "start" ->
                [dockerd EXCEPT ![name].running = TRUE, ![name].paused = FALSE]
           [] action = "stop" ->
                [dockerd EXCEPT ![name].running = FALSE, ![name].paused = FALSE]
           [] action = "pause" -> [dockerd EXCEPT ![name].paused = TRUE]
           [] action = "unpause" -> [dockerd EXCEPT ![name].paused = FALSE]
           [] OTHER -> dockerd

\* --------------------------------------------------- api/github: webhook
S_refs == <<"r", "e", "f", "s">>
S_heads == <<"h", "e", "a", "d", "s">>
S_tags == <<"t", "a", "g", "s">>
S_pull == <<"p", "u", "l", "l">>
Sl == <<"/">>
BranchM == <<"m">>
BranchD == <<"d">>
BranchXY == <<"x", "/", "y">>

Refs ==
    {S_refs \o Sl \o S_heads \o Sl \o BranchM,
     S_refs \o Sl \o S_heads \o Sl \o BranchD,
     S_refs \o Sl \o S_heads \o Sl \o BranchXY,
     S_refs \o Sl \o S_tags \o Sl \o BranchM,
     S_refs \o Sl \o S_pull \o Sl \o BranchM,
     S_tags \o Sl \o S_heads \o Sl \o BranchM,
     BranchM}

\* A signature header value "<sigType>=<digest>".  form: "empty" (header
\* absent), "nosep" (no "="), "kv".  hex: the digest is a hex string.  The
\* digest itself is the HMAC of body dBody under key dKey with hash sigType.
Sig(form, sigType, hex, dKey, dBody) ==
    [form |-> form, sigType |-> sigType, hex |-> hex, dKey |-> dKey, dBody |-> dBody]
SigNone == Sig("empty", "", FALSE, "", "")
SigNoSep == Sig("nosep", "", FALSE, "", "")
SigMd5 == Sig("kv", "md5", TRUE, "s1", "payload")
SigBadHex == Sig("kv", "sha1", FALSE, "s1", "payload")
SigSha1 == Sig("kv", "sha1", TRUE, "s1", "payload")
SigSha256 == Sig("kv", "sha256", TRUE, "s1", "payload")
SigWrongKey == Sig("kv", "sha256", TRUE, "s2", "payload")
SigOtherBody == Sig("kv", "sha256", TRUE, "s1", "tampered")

\* the (X-Hub-Signature, X-Hub-Signature-256) pairs a delivery may carry
SigPairs ==
    {<<s, SigNone>> : s \in {SigNone, SigNoSep, SigMd5, SigBadHex, SigSha1,
                             SigWrongKey, SigOtherBody}}
    \cup {<<SigSha1, SigSha256>>, <<SigSha1, SigWrongKey>>, <<SigWrongKey, SigSha256>>}

\* checkSecret: nil, or the error
checkSecret(payload, secret, sig) ==
    IF sig.form # "kv" THEN "Bad Signature"
    ELSE IF sig.sigType \notin {"sha1", "sha256"} THEN "Unsupported hash algorithm"
    ELSE IF ~sig.hex THEN "encoding/hex: invalid byte"
    ELSE IF ~(sig.dKey = secret /\ sig.dBody = payload) THEN "Signature invalid"
    ELSE ErrNone

Delivery(agent, contentType, readOk, jsonOk, event, sp, fullName, private, branch, ref) ==
    [agent |-> agent, contentType |-> contentType, readOk |-> readOk, jsonOk |-> jsonOk,
     event |-> event, sig |-> sp[1], sig256 |-> sp[2], body |-> "payload",
     FullName |-> fullName, Private |-> private, DefaultBranch |-> branch, Ref |-> ref]

\* every delivery the webhook endpoint is offered
Deliveries ==
    {Delivery(a, c, rj[1], rj[2], e, sp, n, p, b, r) :
        a \in {"GitHub-Hookshot/044aadd", "curl/8.5.0"},
        c \in {"application/json", "application/x-www-form-urlencoded"},
        rj \in {<<TRUE, TRUE>>, <<TRUE, FALSE>>},
        e \in {"ping", "push", "issues"},
        sp \in SigPairs,
        n \in {RepoA, RepoU},
        p \in BOOLEAN,
        b \in {BranchM, BranchXY},
        r \in Refs}

\* a signed push of RepoA's default branch
PushA ==
    Delivery("GitHub-Hookshot/044aadd", "application/json", TRUE, TRUE, "push",
             <<SigSha1, SigSha256>>, RepoA, FALSE, BranchM,
             S_refs \o Sl \o S_heads \o Sl \o BranchM)
NoDelivery ==
    Delivery("", "", FALSE, FALSE, "", <<SigNone, SigNone>>, <<>>, FALSE, <<>>, <<>>)

HasHookshotPrefix(agent) == agent \in {"GitHub-Hookshot/044aadd"}

\* lines 160-191 without the comparison with the default branch
RefCheckPrefixOnly(r) ==
    LET ref == Split(r.Ref)
    IN  IF Len(ref) < 3 \/ ref[1] # S_refs THEN 200
        ELSE IF ref[2] = S_tags THEN 200
        ELSE IF ref[2] # S_heads THEN 200
        ELSE 0
\* lines 160-191: the checks of the ref, 200 when the push is ignored and 0
\* when it is a push to the default branch
RefCheck(r) ==
    LET ref == Split(r.Ref)
    IN  IF Len(ref) # 3 \/ ref[1] # S_refs THEN 200
        ELSE IF ref[2] = S_tags THEN 200
        ELSE IF ref[2] # S_heads THEN 200
        ELSE IF ref[3] # r.DefaultBranch THEN 200
        ELSE 0

EffectiveSig(r) == IF r.sig256 # SigNone THEN r.sig256 ELSE r.sig

Transport(r) ==
    IF ~HasHookshotPrefix(r.agent) THEN 401
    ELSE IF r.contentType # "application/json" THEN 400
    ELSE IF ~r.readOk THEN 400
    ELSE IF ~r.jsonOk THEN 400
    ELSE 0

Authenticate(r) ==
    IF r.FullName \notin DOMAIN buildConfig THEN 401
    ELSE IF checkSecret(r.body, buildConfig[r.FullName].Secret, EffectiveSig(r)) # ErrNone
         THEN 401
    ELSE 0

\* the checks with the event looked at before the signature
PreLockStatusEventFirst(r) ==
    IF Transport(r) # 0 THEN Transport(r)
    ELSE IF r.event = "ping" THEN 200
    ELSE IF r.event # "push" THEN 403
    ELSE IF Authenticate(r) # 0 THEN Authenticate(r)
    ELSE IF r.Private THEN 500
    ELSE RefCheck(r)
\* githubWebhookHandler lines 88-192: the status the handler answers before it
\* reaches TryLock, or 0 when the delivery reaches TryLock.
PreLockStatus(r) ==
    IF Transport(r) # 0 THEN Transport(r)
    ELSE IF Authenticate(r) # 0 THEN Authenticate(r)
    ELSE IF r.event = "ping" THEN 200
    ELSE IF r.event # "push" THEN 403
    ELSE IF r.Private THEN 500
    ELSE RefCheck(r)

\* ------------------------------------------------------------ goroutines
Hooks == 1..MaxHooks
\* goroutines running DeployApplicationPublic or deployApplication: one per
\* configuration entry at most, and one per webhook handler at most
DeployIds == 1..(MaxHooks + 2)

IdleHook == [pc |-> "idle", req |-> NoDelivery, status |-> 0, sawRun |-> 0]

NoInspect == [err |-> ErrNone, Running |-> FALSE, Paused |-> FALSE, ip |-> ""]
EmptyLine == [ok |-> FALSE, ID |-> 0]
FreeDeploy ==
    [pc |-> "free", repoName |-> <<>>, exists |-> FALSE, pend |-> NoInspect,
     imagesRaw |-> <<>>, repoDir |-> "none", newId |-> 0, seenIds |-> <<>>,
     idx |-> 0, log |-> <<>>, failedAt |-> ""]

\* the goroutine the `go` statement creates: the lowest free slot
FreeSlot == CHOOSE d \in DeployIds :
                deploys[d].pc = "free" /\ \A e \in DeployIds : deploys[e].pc = "free" => d <= e
Spawn(pc, repoName) ==
    [deploys EXCEPT ![FreeSlot] = [FreeDeploy EXCEPT !.pc = pc, !.repoName = repoName]]

\* -------------------------------------------------- main: loadConfig, Serve
\* loadConfig's second loop, one entry: CheckContainer(containerName) up to
\* the answer of the daemon
MainCheck ==
    /\ main.pc = "loop"
    /\ main.i <= Len(config)
    /\ LET name == config[main.i].Name
           cn == RepoNameToContainerName(name)
       IN  IF ~IsRegistered(cn)
           THEN /\ main' = [main EXCEPT !.i = @ + 1]
                /\ UNCHANGED deploys
           ELSE \E fail \in BOOLEAN :
                  LET r == InspectResult(cn, fail)
                  IN  IF r.err = ErrorDoesNotExist
                      THEN /\ deploys' = Spawn("lock", name)
                           /\ main' = [main EXCEPT !.i = @ + 1]
                      ELSE IF r.err # ErrNone
                      THEN /\ main' = [main EXCEPT !.i = @ + 1]
                           /\ UNCHANGED deploys
                      ELSE /\ main' = [main EXCEPT !.pc = "upd", !.pend = r]
                           /\ UNCHANGED deploys
    /\ UNCHANGED <<config, containerStates, buildConfig, dockerd, dockerImages, now,
                   hooks, stats, proxies, sched, call,
                   containerStateMutext, threads>>

\* CheckContainer's updateState, then the next entry
MainUpdate ==
    /\ main.pc = "upd"
    /\ containerStates' =
         updateState(containerStates, RepoNameToContainerName(config[main.i].Name),
                     main.pend.Running, main.pend.Paused, main.pend.ip)
    /\ main' = [main EXCEPT !.pc = "loop", !.i = @ + 1, !.pend = NoInspect]
    /\ UNCHANGED <<config, buildConfig, dockerd, dockerImages, now, hooks, deploys,
                   stats, proxies, sched, call,
                   containerStateMutext, threads>>

\* loadConfig returns; main starts the scheduler goroutine and api.Serve
MainServe ==
    /\ main.pc = "loop"
    /\ main.i > Len(config)
    /\ main' = [main EXCEPT !.pc = "serve"]
    /\ UNCHANGED <<config, containerStates, buildConfig, dockerd, dockerImages, now,
                   hooks, deploys, stats, proxies, sched, call,
                   containerStateMutext, threads>>

\* ------------------------------------------------- githubWebhookHandler
\* One delivery, from the first line to the answer or to the failed TryLock.
\* Lines 88-192 read only the request and the registration, which no
\* goroutine changes once Serve runs; TryLock is the first shared step.
HandleDelivery(h, req) ==
    /\ main.pc = "serve"
    /\ hooks[h].pc = "idle"
    /\ LET st == PreLockStatus(req)
       IN  IF st # 0
           THEN /\ hooks' = [hooks EXCEPT ![h] = [pc |-> "done", req |-> req,
                                                  status |-> st, sawRun |-> 0]]
                /\ UNCHANGED <<buildConfig, deploys, call,
                   containerStateMutext, threads>>
           ELSE IF buildConfig[req.FullName].Locked
           THEN \* TryLock failed: the answer is written, Queued is not yet set
                /\ hooks' = [hooks EXCEPT ![h] =
                               [pc |-> "setQueued", req |-> req, status |-> 200,
                                sawRun |-> stats[req.FullName].started]]
                /\ UNCHANGED <<buildConfig, deploys, call,
                   containerStateMutext, threads>>
           ELSE /\ buildConfig' = [buildConfig EXCEPT ![req.FullName].Locked = TRUE]
                /\ deploys' = Spawn("start", req.FullName)
                /\ hooks' = [hooks EXCEPT ![h] = [pc |-> "done", req |-> req,
                                                  status |-> 200, sawRun |-> 0]]
    /\ stats' = IF PreLockStatus(req) = 0 /\ ~buildConfig[req.FullName].Locked
                THEN [stats EXCEPT ![req.FullName].started = @ + 1]
                ELSE stats
    /\ UNCHANGED <<config, containerStates, dockerd, dockerImages, now, main, proxies, sched, call,
                   containerStateMutext, threads>>

\* line 199: conf.Queued = true
HookSetQueued(h) ==
    /\ hooks[h].pc = "setQueued"
    /\ buildConfig' = [buildConfig EXCEPT ![hooks[h].req.FullName].Queued = TRUE]
    /\ hooks' = [hooks EXCEPT ![h].pc = "done"]
    /\ UNCHANGED <<config, containerStates, dockerd, dockerImages, now, main, deploys,
                   stats, proxies, sched, call,
                   containerStateMutext, threads>>

\* ------------------------------------------------------ deployApplication
Op(op, arg) == [op |-> op, arg |-> arg]

\* a failure path on which the cleanup of the scratch directory is not deferred
FailSkipsCleanup(rec, step) == [rec EXCEPT !.failedAt = step, !.pc = "defer"]

\* a step of the run failed: errorLogger, return.  The deferred functions
\* run next: RemoveAll when the scratch directory exists, then the unlock.
Fail(rec, step) ==
    [rec EXCEPT !.failedAt = step,
                !.pc = IF rec.repoDir = "created" THEN "defer_rm" ELSE "defer"]

\* `docker images --format "{{ json . }}" <repo>`, split at "\n": one line per
\* row, and the empty string after the last newline
FormatImages(rows) == [i \in 1..Len(rows) |-> [ok |-> TRUE, ID |-> rows[i].ID]] \o <<EmptyLine>>

RowIds(rows) == {rows[i].ID : i \in 1..Len(rows)}
LocalIds(rows) == {rows[i].ID : i \in {j \in 1..Len(rows) : rows[j].Tag = "local"}}
DropTag(rows, tag) == LET Keep(row) == row.Tag # tag IN SelectSeq(rows, Keep)
DropId(rows, id) == LET Keep(row) == row.ID # id IN SelectSeq(rows, Keep)

\* a startup deploy that calls deployApplication without waiting for the mutex
DeployLockNoWait(d) ==
    /\ deploys[d].pc = "lock"
    /\ buildConfig' = [buildConfig EXCEPT ![deploys[d].repoName].Locked = TRUE]
    /\ deploys' = [deploys EXCEPT ![d].pc = "start"]
    /\ stats' = [stats EXCEPT ![deploys[d].repoName].started = @ + 1]
    /\ UNCHANGED <<config, containerStates, dockerd, dockerImages, now, main, hooks,
                   proxies, sched, call,
                   containerStateMutext, threads>>

\* DeployApplicationPublic: conf.BuildingMutex.Lock()
DeployLock(d) ==
    /\ deploys[d].pc = "lock"
    /\ IF deploys[d].repoName \notin DOMAIN buildConfig
       THEN /\ deploys' = [deploys EXCEPT ![d] = FreeDeploy]
            /\ UNCHANGED <<buildConfig, stats, call,
                   containerStateMutext, threads>>
       ELSE /\ ~buildConfig[deploys[d].repoName].Locked
            /\ buildConfig' = [buildConfig EXCEPT ![deploys[d].repoName].Locked = TRUE]
            /\ deploys' = [deploys EXCEPT ![d].pc = "start"]
            /\ stats' = [stats EXCEPT ![deploys[d].repoName].started = @ + 1]
    /\ UNCHANGED <<config, containerStates, dockerd, dockerImages, now, main, hooks,
                   proxies, sched, call,
                   containerStateMutext, threads>>

\* lines 222-240: a run begins; the unlock is deferred
DeployStart(d) ==
    /\ deploys[d].pc = "start"
    /\ deploys' = [deploys EXCEPT ![d] =
                     [FreeDeploy EXCEPT !.pc = "check1", !.repoName = deploys[d].repoName]]
    /\ UNCHANGED <<config, containerStates, buildConfig, dockerd, dockerImages, now,
                   main, hooks, stats, proxies, sched, call,
                   containerStateMutext, threads>>

\* lines 264-273: CheckContainer(containerName) up to the daemon's answer
DeployCheck1(d) ==
    /\ deploys[d].pc = "check1"
    /\ LET cn == RepoNameToContainerName(deploys[d].repoName)
       IN  IF ~IsRegistered(cn)
           THEN deploys' = [deploys EXCEPT ![d] = Fail(@, "inspect")]
           ELSE \E fail \in BOOLEAN :
                  LET r == InspectResult(cn, fail)
                  IN  IF r.err = ErrorDoesNotExist
                      THEN deploys' = [deploys EXCEPT ![d].exists = FALSE, ![d].pc = "images"]
                      ELSE IF r.err # ErrNone
                      THEN deploys' = [deploys EXCEPT ![d] = Fail(@, "inspect")]
                      ELSE deploys' = [deploys EXCEPT ![d].pend = r, ![d].pc = "check1_upd"]
    /\ UNCHANGED <<config, containerStates, buildConfig, dockerd, dockerImages, now,
                   main, hooks, stats, proxies, sched, call,
                   containerStateMutext, threads>>

\* CheckContainer line 138: updateState
DeployCheck1Update(d) ==
    /\ deploys[d].pc = "check1_upd"
    /\ containerStates' =
         updateState(containerStates, RepoNameToContainerName(deploys[d].repoName),
                     deploys[d].pend.Running, deploys[d].pend.Paused, deploys[d].pend.ip)
    /\ deploys' = [deploys EXCEPT ![d].exists = TRUE, ![d].pend = NoInspect,
                                  ![d].pc = "images"]
    /\ UNCHANGED <<config, buildConfig, dockerd, dockerImages, now, main, hooks, stats,
                   proxies, sched, call,
                   containerStateMutext, threads>>

\* lines 275-295: the snapshot of the repository's images.  started: cmd.Start
\* and the read succeeded; waited: cmd.Wait succeeded (its failure is only
\* logged, and what was read is kept: here nothing).
DeployImages(d) ==
    /\ deploys[d].pc = "images"
    /\ \E started \in BOOLEAN, waited \in BOOLEAN :
         IF ~started
         THEN deploys' = [deploys EXCEPT ![d] = Fail(@, "images")]
         ELSE deploys' = [deploys EXCEPT
                ![d].imagesRaw = IF waited THEN FormatImages(dockerImages[deploys[d].repoName])
                                 ELSE <<EmptyLine>>,
                ![d].pc = "mkdir"]
    /\ UNCHANGED <<config, containerStates, buildConfig, dockerd, dockerImages, now,
                   main, hooks, stats, proxies, sched, call,
                   containerStateMutext, threads>>

\* lines 297-306: os.MkdirTemp; RemoveAll is deferred
DeployMkdir(d) ==
    /\ deploys[d].pc = "mkdir"
    /\ \E ok \in BOOLEAN :
         IF ~ok
         THEN deploys' = [deploys EXCEPT ![d] = Fail(@, "mkdir")]
         ELSE deploys' = [deploys EXCEPT ![d].repoDir = "created", ![d].pc = "clone",
                                         ![d].log = Append(@, Op("mkdir", 0))]
    /\ UNCHANGED <<config, containerStates, buildConfig, dockerd, dockerImages, now,
                   main, hooks, stats, proxies, sched, call,
                   containerStateMutext, threads>>

\* lines 308-310: git clone
DeployClone(d) ==
    /\ deploys[d].pc = "clone"
    /\ \E ok \in BOOLEAN :
         IF ~ok
         THEN deploys' = [deploys EXCEPT ![d] = Fail(@, "clone")]
         ELSE deploys' = [deploys EXCEPT ![d].pc = "build"]
    /\ UNCHANGED <<config, containerStates, buildConfig, dockerd, dockerImages, now,
                   main, hooks, stats, proxies, sched, call,
                   containerStateMutext, threads>>

\* lines 311-314: docker build -t <repo>.  The daemon tags the image it built
\* <repo>:latest; an unchanged source builds the image it built before.
DeployBuild(d) ==
    /\ deploys[d].pc = "build"
    /\ \E ok \in BOOLEAN, id \in 1..MaxImageId :
         IF ~ok
         THEN /\ deploys' = [deploys EXCEPT ![d] = Fail(@, "build")]
              /\ UNCHANGED dockerImages
         ELSE /\ deploys' = [deploys EXCEPT ![d].newId = id,
                                            ![d].pc = IF deploys[d].exists THEN "stop" ELSE "run"]
              /\ dockerImages' = [dockerImages EXCEPT ![deploys[d].repoName] =
                    <<[ID |-> id, Tag |-> "latest"]>>
                    \o DropTag(@, "latest")]
    /\ UNCHANGED <<config, containerStates, buildConfig, dockerd, now, main, hooks,
                   stats, proxies, sched, call,
                   containerStateMutext, threads>>

\* lines 316-321: StopContainer(containerName) up to the daemon's answer
DeployStop(d) ==
    /\ deploys[d].pc = "stop"
    /\ LET cn == RepoNameToContainerName(deploys[d].repoName)
       IN  \E fail \in BOOLEAN :
             /\ dockerd' = CmdEffect(cn, "stop", fail)
             /\ IF dockerExecCmd(cn, "stop", fail) # ErrNone
                THEN deploys' = [deploys EXCEPT ![d] =
                                   Fail([@ EXCEPT !.log = Append(@, Op("stop", 0))], "stop")]
                ELSE deploys' = [deploys EXCEPT ![d].pc = "stop_upd",
                                                ![d].log = Append(@, Op("stop", 0))]
    /\ UNCHANGED <<config, containerStates, buildConfig, dockerImages, now, main, hooks,
                   stats, proxies, sched, call,
                   containerStateMutext, threads>>

\* StopContainer line 193: updateRunning(name, false, false)
DeployStopUpdate(d) ==
    /\ deploys[d].pc = "stop_upd"
    /\ containerStates' =
         updateRunning(containerStates, RepoNameToContainerName(deploys[d].repoName),
                       FALSE, FALSE)
    /\ deploys' = [deploys EXCEPT ![d].pc = "rm"]
    /\ UNCHANGED <<config, buildConfig, dockerd, dockerImages, now, main, hooks, stats,
                   proxies, sched, call,
                   containerStateMutext, threads>>

\* lines 323-325: docker rm.  The daemon removes a container that is stopped.
DeployRm(d) ==
    /\ deploys[d].pc = "rm"
    /\ LET cn == RepoNameToContainerName(deploys[d].repoName)
       IN  \E ok \in BOOLEAN :
             IF ok /\ dockerd[cn].exists /\ ~dockerd[cn].running
             THEN /\ dockerd' = [dockerd EXCEPT ![cn] = NoContainer]
                  /\ deploys' = [deploys EXCEPT ![d].pc = "run",
                                                ![d].log = Append(@, Op("rm", 0))]
             ELSE /\ UNCHANGED dockerd
                  /\ deploys' = [deploys EXCEPT ![d] =
                                   Fail([@ EXCEPT !.log = Append(@, Op("rm", 0))], "rm")]
    /\ UNCHANGED <<config, containerStates, buildConfig, dockerImages, now, main, hooks,
                   stats, proxies, sched, call,
                   containerStateMutext, threads>>

\* lines 327-329: docker run -d --name <container> <repo>:local.  The daemon
\* creates the container when the name is free and an image carries the tag.
DeployRun(d) ==
    /\ deploys[d].pc = "run"
    /\ LET cn == RepoNameToContainerName(deploys[d].repoName)
           local == LocalIds(dockerImages[deploys[d].repoName])
       IN  \E ok \in BOOLEAN :
             IF ok /\ ~dockerd[cn].exists /\ local # {}
             THEN /\ dockerd' = [dockerd EXCEPT ![cn] =
                        [RunningContainer EXCEPT !.image = CHOOSE i \in local : TRUE]]
                  /\ deploys' = [deploys EXCEPT ![d].pc = "check2",
                                                ![d].log = Append(@, Op("run", 0))]
             ELSE /\ UNCHANGED dockerd
                  /\ deploys' = [deploys EXCEPT ![d] =
                                   Fail([@ EXCEPT !.log = Append(@, Op("run", 0))], "run")]
    /\ UNCHANGED <<config, containerStates, buildConfig, dockerImages, now, main, hooks,
                   stats, proxies, sched, call,
                   containerStateMutext, threads>>

\* lines 331-340: CheckContainer(containerName) up to the daemon's answer
DeployCheck2(d) ==
    /\ deploys[d].pc = "check2"
    /\ LET cn == RepoNameToContainerName(deploys[d].repoName)
       IN  \E fail \in BOOLEAN :
             LET r == InspectResult(cn, fail)
             IN  IF r.err # ErrNone
                 THEN deploys' = [deploys EXCEPT ![d] = Fail(@, "verify")]
                 ELSE deploys' = [deploys EXCEPT ![d].pend = r, ![d].pc = "check2_upd"]
    /\ UNCHANGED <<config, containerStates, buildConfig, dockerd, dockerImages, now,
                   main, hooks, stats, proxies, sched, call,
                   containerStateMutext, threads>>

DeployCheck2Update(d) ==
    /\ deploys[d].pc = "check2_upd"
    /\ containerStates' =
         updateState(containerStates, RepoNameToContainerName(deploys[d].repoName),
                     deploys[d].pend.Running, deploys[d].pend.Paused, deploys[d].pend.ip)
    /\ deploys' = [deploys EXCEPT ![d].pend = NoInspect, ![d].pc = "prune", ![d].idx = 1]
    /\ UNCHANGED <<config, buildConfig, dockerd, dockerImages, now, main, hooks, stats,
                   proxies, sched, call,
                   containerStateMutext, threads>>

\* the ids the pruning loop hands to `docker rmi`, line by line
ShouldRemove(rec, line) ==
    line.ok /\ ~(\E k \in 1..Len(rec.seenIds) : rec.seenIds[k] = line.ID)

\* lines 345-366: one line of the snapshot.  The daemon removes an image no
\* container uses; a failed rmi is logged and the loop goes on.
DeployPrune(d) ==
    /\ deploys[d].pc = "prune"
    /\ deploys[d].idx <= Len(deploys[d].imagesRaw)
    /\ LET rec == deploys[d]
           line == rec.imagesRaw[rec.idx]
           InUse(id) == \E c \in ContainerNames : dockerd[c].exists /\ dockerd[c].image = id
       IN  IF ~ShouldRemove(rec, line)
           THEN /\ deploys' = [deploys EXCEPT ![d].idx = @ + 1]
                /\ UNCHANGED dockerImages
           ELSE \E ok \in BOOLEAN :
                  /\ deploys' = [deploys EXCEPT ![d].idx = @ + 1,
                                                ![d].seenIds = Append(@, line.ID),
                                                ![d].log = Append(@, Op("rmi", line.ID))]
                  /\ IF ok /\ ~InUse(line.ID)
                     THEN dockerImages' = [dockerImages EXCEPT ![rec.repoName] =
                            DropId(@, line.ID)]
                     ELSE UNCHANGED dockerImages
    /\ UNCHANGED <<config, containerStates, buildConfig, dockerd, now, main, hooks,
                   stats, proxies, sched, call,
                   containerStateMutext, threads>>

\* line 368: the loop is over, the run returns
DeployPruned(d) ==
    /\ deploys[d].pc = "prune"
    /\ deploys[d].idx > Len(deploys[d].imagesRaw)
    /\ deploys' = [deploys EXCEPT ![d].pc = "defer_rm"]
    /\ UNCHANGED <<config, containerStates, buildConfig, dockerd, dockerImages, now,
                   main, hooks, stats, proxies, sched, call,
                   containerStateMutext, threads>>

\* lines 302-306, deferred: os.RemoveAll(repoDir); its error is only logged
DeployRemoveAll(d) ==
    /\ deploys[d].pc = "defer_rm"
    /\ deploys' = [deploys EXCEPT ![d].repoDir = "removed", ![d].pc = "defer",
                                  ![d].log = Append(@, Op("removeall", 0))]
    /\ UNCHANGED <<config, containerStates, buildConfig, dockerd, dockerImages, now,
                   main, hooks, stats, proxies, sched, call,
                   containerStateMutext, threads>>

\* lines 231-234, deferred: the read of conf.Queued
DeployDefer(d) ==
    /\ deploys[d].pc = "defer"
    /\ deploys' = [deploys EXCEPT ![d].pc =
                     IF buildConfig[deploys[d].repoName].Queued THEN "rerun" ELSE "unlock"]
    /\ UNCHANGED <<config, containerStates, buildConfig, dockerd, dockerImages, now,
                   main, hooks, stats, proxies, sched, call,
                   containerStateMutext, threads>>

\* a holder that releases the mutex and takes it again for the re-run
DeployRerunRelease(d) ==
    /\ deploys[d].pc = "rerun"
    /\ buildConfig' = [buildConfig EXCEPT ![deploys[d].repoName].Queued = FALSE,
                                          ![deploys[d].repoName].Locked = FALSE]
    /\ deploys' = [deploys EXCEPT ![d].pc = "lock"]
    /\ stats' = [stats EXCEPT ![deploys[d].repoName].reruns = @ + 1]
    /\ UNCHANGED <<config, containerStates, dockerd, dockerImages, now, main, hooks,
                   proxies, sched, call,
                   containerStateMutext, threads>>

\* lines 235-236: conf.Queued = false; deployApplication(repoName)
DeployRerun(d) ==
    /\ deploys[d].pc = "rerun"
    /\ buildConfig' = [buildConfig EXCEPT ![deploys[d].repoName].Queued = FALSE]
    /\ deploys' = [deploys EXCEPT ![d].pc = "start"]
    /\ stats' = [stats EXCEPT ![deploys[d].repoName].reruns = @ + 1,
                              ![deploys[d].repoName].started = @ + 1]
    /\ UNCHANGED <<config, containerStates, dockerd, dockerImages, now, main, hooks,
                   proxies, sched, call,
                   containerStateMutext, threads>>

\* line 238: conf.BuildingMutex.Unlock(); the goroutine ends
DeployUnlock(d) ==
    /\ deploys[d].pc = "unlock"
    /\ buildConfig' = [buildConfig EXCEPT ![deploys[d].repoName].Locked = FALSE]
    /\ deploys' = [deploys EXCEPT ![d] = FreeDeploy]
    /\ UNCHANGED <<config, containerStates, dockerd, dockerImages, now, main, hooks,
                   stats, proxies, sched, call,
                   containerStateMutext, threads>>

\* ------------------------------------------------ battleSnakePoxyHandler
Proxies == 1..MaxProxies
\* the {id} path variables requested: RepoA's container and a stranger
PathIds == {<<"a", "-", "b">>, <<"x">>}

\* ops: the requests this handler sent to the docker daemon, in order
\* forwarded: http.DefaultClient.Do returned a response; wrote: io.Copy to the
\* client returned nil
IdleProxy ==
    [pc |-> "idle", id |-> <<>>, stale |-> FALSE, seen |-> "", ops |-> <<>>,
     pend |-> NoInspect, err |-> ErrNone, forwarded |-> FALSE, wrote |-> FALSE]

ProxyFail(rec, err) == [rec EXCEPT !.pc = "done", !.err = err]

\* battlesnake.go:44  id := "bs-" + mux.Vars(r)["id"], and init.go:147, the
\* IsStale of EnsureContainerRunning
ProxyBegin(p, id) ==
    /\ main.pc = "serve"
    /\ proxies[p].pc = "idle"
    /\ LET name == <<"b", "s", "-">> \o id
       IN  proxies' = [proxies EXCEPT ![p] =
                         [IdleProxy EXCEPT !.pc = IF IsStale(name) THEN "inspect" ELSE "read",
                                           !.id = name, !.stale = IsStale(name)]]
    /\ UNCHANGED <<config, containerStates, buildConfig, dockerd, dockerImages, now,
                   main, hooks, deploys, stats, sched, call,
                   containerStateMutext, threads>>

\* init.go:148  CheckContainer up to the answer of the daemon
ProxyInspect(p) ==
    /\ proxies[p].pc = "inspect"
    /\ LET rec == proxies[p]
       IN  IF ~IsRegistered(rec.id)
           THEN proxies' = [proxies EXCEPT ![p] = ProxyFail(rec, ErrorNotRegistered)]
           ELSE \E fail \in BOOLEAN :
                  LET r == InspectResult(rec.id, fail)
                      sent == [rec EXCEPT !.ops = Append(@, "inspect")]
                  IN  proxies' = [proxies EXCEPT ![p] =
                                    IF r.err # ErrNone THEN ProxyFail(sent, r.err)
                                    ELSE [sent EXCEPT !.pc = "inspect_upd", !.pend = r]]
    /\ UNCHANGED <<config, containerStates, buildConfig, dockerd, dockerImages, now,
                   main, hooks, deploys, stats, sched, call,
                   containerStateMutext, threads>>

\* CheckContainer's updateState
ProxyInspectUpdate(p) ==
    /\ proxies[p].pc = "inspect_upd"
    /\ LET rec == proxies[p]
       IN  /\ containerStates' = updateState(containerStates, rec.id, rec.pend.Running,
                                             rec.pend.Paused, rec.pend.ip)
           /\ proxies' = [proxies EXCEPT ![p] = [rec EXCEPT !.pc = "read", !.pend = NoInspect]]
    /\ UNCHANGED <<config, buildConfig, dockerd, dockerImages, now, main, hooks, deploys,
                   stats, sched, call,
                   containerStateMutext, threads>>

\* init.go:154-165  GetState and the choice between unpause, start and nothing
ProxyRead(p) ==
    /\ proxies[p].pc = "read"
    /\ LET rec == proxies[p]
       IN  proxies' = [proxies EXCEPT ![p] =
             IF ~IsRegistered(rec.id) THEN ProxyFail(rec, ErrorNotRegistered)
             ELSE LET state == containerStates[rec.id]
                  IN  IF state.Running /\ state.Paused
                      THEN [rec EXCEPT !.pc = "unpause", !.seen = "paused"]
                      ELSE IF ~state.Running
                      THEN [rec EXCEPT !.pc = "start", !.seen = "stopped"]
                      ELSE [rec EXCEPT !.pc = "ensured", !.seen = "running"]]
    /\ UNCHANGED <<config, containerStates, buildConfig, dockerd, dockerImages, now,
                   main, hooks, deploys, stats, sched, call,
                   containerStateMutext, threads>>

\* UnpauseContainer and StartContainer up to the answer of the daemon
ProxyCmd(p, action, next) ==
    /\ LET rec == proxies[p]
       IN  IF ~IsRegistered(rec.id)
           THEN /\ proxies' = [proxies EXCEPT ![p] = ProxyFail(rec, ErrorNotRegistered)]
                /\ UNCHANGED dockerd
           ELSE \E fail \in BOOLEAN :
                  LET err == dockerExecCmd(rec.id, action, fail)
                      sent == [rec EXCEPT !.ops = Append(@, action)]
                  IN  /\ dockerd' = CmdEffect(rec.id, action, fail)
                      /\ proxies' = [proxies EXCEPT ![p] =
                                       IF err # ErrNone THEN ProxyFail(sent, err)
                                       ELSE [sent EXCEPT !.pc = next]]
    /\ UNCHANGED <<config, containerStates, buildConfig, dockerImages, now, main, hooks,
                   deploys, stats, sched, call,
                   containerStateMutext, threads>>

\* init.go:160  return UnpauseContainer(name)
ProxyUnpause(p) ==
    /\ proxies[p].pc = "unpause"
    /\ ProxyCmd(p, "unpause", "unpause_upd")
\* init.go:163  return StartContainer(name)
ProxyStart(p) ==
    /\ proxies[p].pc = "start"
    /\ ProxyCmd(p, "start", "start_inspect")

\* UnpauseContainer's updatePaused(name, false); EnsureContainerRunning
\* returns nil
ProxyUnpauseUpdate(p) ==
    /\ proxies[p].pc = "unpause_upd"
    /\ containerStates' = updatePaused(containerStates, proxies[p].id, FALSE)
    /\ proxies' = [proxies EXCEPT ![p].pc = "ensured"]
    /\ UNCHANGED <<config, buildConfig, dockerd, dockerImages, now, main, hooks, deploys,
                   stats, sched, call,
                   containerStateMutext, threads>>

\* StartContainer's CheckContainer up to the answer of the daemon; the
\* boolean it returns is dropped
ProxyStartInspect(p) ==
    /\ proxies[p].pc = "start_inspect"
    /\ \E fail \in BOOLEAN :
         LET rec == proxies[p]
             r == InspectResult(rec.id, fail)
             sent == [rec EXCEPT !.ops = Append(@, "inspect")]
         IN  proxies' = [proxies EXCEPT ![p] =
                           IF r.err # ErrNone THEN ProxyFail(sent, r.err)
                           ELSE [sent EXCEPT !.pc = "start_upd", !.pend = r]]
    /\ UNCHANGED <<config, containerStates, buildConfig, dockerd, dockerImages, now,
                   main, hooks, deploys, stats, sched, call,
                   containerStateMutext, threads>>

\* its updateState; EnsureContainerRunning returns nil
ProxyStartUpdate(p) ==
    /\ proxies[p].pc = "start_upd"
    /\ LET rec == proxies[p]
       IN  /\ containerStates' = updateState(containerStates, rec.id, rec.pend.Running,
                                             rec.pend.Paused, rec.pend.ip)
           /\ proxies' = [proxies EXCEPT ![p] = [rec EXCEPT !.pc = "ensured", !.pend = NoInspect]]
    /\ UNCHANGED <<config, buildConfig, dockerd, dockerImages, now, main, hooks, deploys,
                   stats, sched, call,
                   containerStateMutext, threads>>

\* battlesnake.go:38-59  the address is read from the cache and the request
\* passed through; it can be answered only by a container that runs at that
\* address
ProxyForward(p) ==
    /\ proxies[p].pc = "ensured"
    /\ LET rec == proxies[p]
           c == dockerd[rec.id]
           ip == containerStates[rec.id].IPAddress
       IN  \E ok \in BOOLEAN :
             /\ ok => c.exists /\ c.running /\ ~c.paused /\ ip # "" /\ ip = c.ip
             /\ proxies' = [proxies EXCEPT ![p] =
                              IF ok THEN [rec EXCEPT !.pc = "write", !.forwarded = TRUE]
                              ELSE ProxyFail(rec, "Could not perform pass-through request")]
    /\ UNCHANGED <<config, containerStates, buildConfig, dockerd, dockerImages, now,
                   main, hooks, deploys, stats, sched, call,
                   containerStateMutext, threads>>

\* a handler that goes on to the UpdateUsed goroutine whether or not the
\* response could be written
ProxyWriteThenAlwaysUsed(p) ==
    /\ proxies[p].pc = "write"
    /\ \E ok \in BOOLEAN :
         proxies' = [proxies EXCEPT ![p].pc = "used", ![p].wrote = ok]
    /\ UNCHANGED <<config, containerStates, buildConfig, dockerd, dockerImages, now,
                   main, hooks, deploys, stats, sched, call,
                   containerStateMutext, threads>>

\* battlesnake.go:62-74  headers, status and body are written to the client;
\* a failed io.Copy is logged and the handler returns
ProxyWrite(p) ==
    /\ proxies[p].pc = "write"
    /\ \E ok \in BOOLEAN :
         proxies' = [proxies EXCEPT ![p] =
                       IF ok THEN [@ EXCEPT !.pc = "used", !.wrote = TRUE]
                       ELSE ProxyFail(@, "Could not write proxied response")]
    /\ UNCHANGED <<config, containerStates, buildConfig, dockerd, dockerImages, now,
                   main, hooks, deploys, stats, sched, call,
                   containerStateMutext, threads>>

\* battlesnake.go:77-79  go func() { docker.UpdateUsed(id) }()
ProxyUpdateUsed(p) ==
    /\ proxies[p].pc = "used"
    /\ containerStates' = UpdateUsed(containerStates, proxies[p].id)
    /\ proxies' = [proxies EXCEPT ![p].pc = "done"]
    /\ UNCHANGED <<config, buildConfig, dockerd, dockerImages, now, main, hooks, deploys,
                   stats, sched, call,
                   containerStateMutext, threads>>

\* ------------------------------------------------- stopOldContainersJob
\* toStop, toPause: the names of the two slices not yet iterated over;
\* dueStop, duePause: the slices as the pass filled them; issued: the
\* StopContainer / PauseContainer calls of this pass and their errors, in order
IdleSched ==
    [pc |-> "run", toStop |-> {}, toPause |-> {}, cur |-> <<>>, nextRunner |-> 0,
     wake |-> 0, dueStop |-> {}, duePause |-> {}, issued |-> <<>>]

\* a min that keeps its first argument
MinKeepsFirst(a, b) == a

Min(a, b) == IF a <= b THEN a ELSE b
RECURSIVE MinOf(_, _)
MinOf(S, least) ==
    IF S = {} THEN least
    ELSE LET x == CHOOSE y \in S : TRUE IN MinOf(S \ {x}, Min(least, x))

\* an instance never used counted as used just now
timeSinceNilIsNow(container) ==
    IF container.LastUsed = Nil THEN 0 ELSE now - container.LastUsed

\* main.go:68-71
timeSince(container) ==
    IF container.LastUsed = Nil THEN SinceZeroTime ELSE now - container.LastUsed
\* main.go:73-87  the delay of a container
Delay(container) == IF container.Paused THEN STOP_DELAY ELSE PAUSE_DELAY
\* due only once the threshold is exceeded
DueAfterThreshold(container) ==
    container.Running /\ timeSince(container) > Delay(container)

Due(container) == container.Running /\ timeSince(container) >= Delay(container)
Kept(container) == container.Running /\ timeSince(container) < Delay(container)

\* main.go:59-90  the declarations and IterContainers, under the read lock
SchedPass ==
    /\ main.pc = "serve"
    /\ sched.pc = "run"
    /\ LET names == DOMAIN containerStates
           kept == {n \in names : Kept(containerStates[n])}
           stops == {n \in names : Due(containerStates[n]) /\ containerStates[n].Paused}
           pauses == {n \in names : Due(containerStates[n]) /\ ~containerStates[n].Paused}
       IN  sched' = [sched EXCEPT
             !.pc = "loop",
             !.toStop = stops, !.dueStop = stops,
             !.toPause = pauses, !.duePause = pauses,
             !.nextRunner =
                MinOf({Delay(containerStates[n]) - timeSince(containerStates[n]) : n \in kept},
                      DefaultDelay)]
    /\ UNCHANGED <<config, containerStates, buildConfig, dockerd, dockerImages, now,
                   main, hooks, deploys, stats, proxies, call,
                   containerStateMutext, threads>>

\* a loop that gives up the rest of the pass at the first error
SchedCmdAbortsOnError(name, action, next) ==
    \E fail \in BOOLEAN :
        LET err == IF IsRegistered(name) THEN dockerExecCmd(name, action, fail)
                   ELSE ErrorNotRegistered
        IN  /\ dockerd' = IF IsRegistered(name) THEN CmdEffect(name, action, fail)
                          ELSE dockerd
            /\ sched' = [sched EXCEPT
                           !.toStop = IF err = ErrNone
                                      THEN @ \ (IF action = "stop" THEN {name} ELSE {})
                                      ELSE {},
                           !.toPause = IF err = ErrNone
                                       THEN @ \ (IF action = "pause" THEN {name} ELSE {})
                                       ELSE {},
                           !.pc = IF err = ErrNone THEN next ELSE "loop",
                           !.cur = IF err = ErrNone THEN name ELSE <<>>,
                           !.issued = Append(@, [op |-> action, name |-> name, err |-> err])]

\* StopContainer / PauseContainer up to the answer of the daemon; an error
\* is logged and the loop goes on
SchedCmd(name, action, next) ==
    \E fail \in BOOLEAN :
        LET err == IF IsRegistered(name) THEN dockerExecCmd(name, action, fail)
                   ELSE ErrorNotRegistered
        IN  /\ dockerd' = IF IsRegistered(name) THEN CmdEffect(name, action, fail)
                          ELSE dockerd
            /\ sched' = [sched EXCEPT
                           !.toStop = @ \ (IF action = "stop" THEN {name} ELSE {}),
                           !.toPause = @ \ (IF action = "pause" THEN {name} ELSE {}),
                           !.pc = IF err = ErrNone THEN next ELSE "loop",
                           !.cur = IF err = ErrNone THEN name ELSE <<>>,
                           !.issued = Append(@, [op |-> action, name |-> name, err |-> err])]

\* main.go:92-99  the next name of toStop
SchedStop ==
    /\ sched.pc = "loop"
    /\ \E name \in sched.toStop : SchedCmd(name, "stop", "stop_upd")
    /\ UNCHANGED <<config, containerStates, buildConfig, dockerImages, now, main, hooks,
                   deploys, stats, proxies, call,
                   containerStateMutext, threads>>

\* StopContainer's updateRunning(name, false, false)
SchedStopUpdate ==
    /\ sched.pc = "stop_upd"
    /\ containerStates' = updateRunning(containerStates, sched.cur, FALSE, FALSE)
    /\ sched' = [sched EXCEPT !.pc = "loop", !.cur = <<>>]
    /\ UNCHANGED <<config, buildConfig, dockerd, dockerImages, now, main, hooks, deploys,
                   stats, proxies, call,
                   containerStateMutext, threads>>

\* main.go:100-107  the next name of toPause, once toStop is through
SchedPause ==
    /\ sched.pc = "loop"
    /\ sched.toStop = {}
    /\ \E name \in sched.toPause : SchedCmd(name, "pause", "pause_upd")
    /\ UNCHANGED <<config, containerStates, buildConfig, dockerImages, now, main, hooks,
                   deploys, stats, proxies, call,
                   containerStateMutext, threads>>

\* PauseContainer's updatePaused(name, true)
SchedPauseUpdate ==
    /\ sched.pc = "pause_upd"
    /\ containerStates' = updatePaused(containerStates, sched.cur, TRUE)
    /\ sched' = [sched EXCEPT !.pc = "loop", !.cur = <<>>]
    /\ UNCHANGED <<config, buildConfig, dockerd, dockerImages, now, main, hooks, deploys,
                   stats, proxies, call,
                   containerStateMutext, threads>>

\* main.go:109 and 123  return nextRunner; time.Sleep(delay)
SchedSleep ==
    /\ sched.pc = "loop"
    /\ sched.toStop = {} /\ sched.toPause = {}
    /\ sched' = [sched EXCEPT !.pc = "sleep", !.wake = now + sched.nextRunner]
    /\ UNCHANGED <<config, containerStates, buildConfig, dockerd, dockerImages, now,
                   main, hooks, deploys, stats, proxies, call,
                   containerStateMutext, threads>>

\* the sleep is over: the next pass
SchedWake ==
    /\ sched.pc = "sleep"
    /\ now >= sched.wake
    /\ sched' = IdleSched
    /\ UNCHANGED <<config, containerStates, buildConfig, dockerd, dockerImages, now,
                   main, hooks, deploys, stats, proxies, call,
                   containerStateMutext, threads>>

\* the wall clock advances
Tick ==
    /\ now + TickStep <= MaxTime
    /\ now' = now + TickStep
    /\ UNCHANGED <<config, containerStates, buildConfig, dockerd, dockerImages, main,
                   hooks, deploys, stats, proxies, sched, call,
                   containerStateMutext, threads>>

\* ------------------------------------------------------------------- Init
\* api.RegisterSecret
RegisterSecret(bc, repoName, secret) ==
    [n \in DOMAIN bc \cup {repoName} |->
        IF n = repoName THEN [Secret |-> secret, Locked |-> FALSE, Queued |-> FALSE]
        ELSE bc[n]]

\* loadConfig's first loop (lines 36-40) over the entries from i on
RECURSIVE RegisterAll(_, _, _)
RegisterAll(acc, cfg, i) ==
    IF i > Len(cfg) THEN acc
    ELSE RegisterAll([cs |-> RegisterContainer(acc.cs, cfg[i].Name),
                      bc |-> RegisterSecret(acc.bc, cfg[i].Name, cfg[i].Secret)],
                     cfg, i + 1)
Registered(cfg) == RegisterAll([cs |-> <<>>, bc |-> <<>>], cfg, 1)

\* the configuration files tried: RepoA alone, and RepoA together with an
\* entry named like RepoA's container
Configs ==
    {<<[Name |-> RepoA, Secret |-> "s1"]>>,
     <<[Name |-> RepoA, Secret |-> "s1"], [Name |-> BsAB, Secret |-> "s2"]>>}

RepoNames == {RepoA, BsAB}

\* what the docker daemon holds for RepoA when the manager starts
Worlds ==
    {[container |-> NoContainer, images |-> <<>>],
     [container |-> NoContainer,
      images |-> <<[ID |-> 1, Tag |-> "latest"], [ID |-> 1, Tag |-> "local"]>>],
     [container |-> RunningContainer,
      images |-> <<[ID |-> 1, Tag |-> "latest"], [ID |-> 1, Tag |-> "local"]>>],
     [container |-> RunningContainer,
      images |-> <<[ID |-> 2, Tag |-> "latest"], [ID |-> 1, Tag |-> "local"]>>]}

\* the state when loadConfig has registered every entry (lines 36-40)
Init ==
    /\ config \in Configs
    /\ containerStates = Registered(config).cs
    /\ buildConfig = Registered(config).bc
    /\ \E w \in Worlds :
         /\ dockerd = [c \in ContainerNames |->
                         IF c = RepoNameToContainerName(RepoA) THEN w.container
                         ELSE NoContainer]
         /\ dockerImages = [r \in RepoNames |-> IF r = RepoA THEN w.images ELSE <<>>]
    /\ now = 0
    /\ main = [pc |-> "loop", i |-> 1, pend |-> NoInspect]
    /\ hooks = [h \in Hooks |-> IdleHook]
    /\ deploys = [d \in DeployIds |-> FreeDeploy]
    /\ stats = [r \in DOMAIN buildConfig |-> [started |-> 0, reruns |-> 0]]
    /\ proxies = [p \in Proxies |-> IdleProxy]
    /\ sched = IdleSched
    /\ call = IdleCall
    /\ containerStateMutext = [writer |-> "", readers |-> {}]
    /\ threads = [t \in Threads |-> IdleThread]

MainNext == MainCheck \/ MainUpdate \/ MainServe

DeployNext ==
    \E d \in DeployIds :
        \/ DeployLock(d) \/ DeployStart(d) \/ DeployCheck1(d) \/ DeployCheck1Update(d)
        \/ DeployImages(d) \/ DeployMkdir(d) \/ DeployClone(d) \/ DeployBuild(d)
        \/ DeployStop(d) \/ DeployStopUpdate(d) \/ DeployRm(d) \/ DeployRun(d)
        \/ DeployCheck2(d) \/ DeployCheck2Update(d) \/ DeployPrune(d) \/ DeployPruned(d)
        \/ DeployRemoveAll(d) \/ DeployDefer(d) \/ DeployRerun(d) \/ DeployUnlock(d)

\* startup, signed pushes of RepoA's default branch, and the deploys they start
Next ==
    \/ MainNext
    \/ \E h \in Hooks : HandleDelivery(h, PushA)
    \/ \E h \in Hooks : HookSetQueued(h)
    \/ DeployNext

Spec == Init /\ [][Next]_vars

\* ================================================================ claims
\* a deploy run of repository r is executing in goroutine d: from the lock
\* being taken for it to the unlock
InFlight(d, r) == deploys[d].repoName = r /\ deploys[d].pc \notin {"free", "lock"}

\* nothing is running or pending for r: startup is over, every handler has
\* answered and set what it sets, every deploy goroutine has ended
Quiescent(r) ==
    /\ main.pc = "serve"
    /\ \A h \in Hooks : hooks[h].pc \in {"idle", "done"}
    /\ \A d \in DeployIds : deploys[d].pc = "free"

\* C1: for every repository, under every interleaving of webhook build
\* requests and the startup deploy, at most one execution of the deploy
\* procedure is in flight, and it holds the build lock.
C1_OneDeployInFlight ==
    \A r \in DOMAIN buildConfig :
        /\ Cardinality({d \in DeployIds : InFlight(d, r)}) <= 1
        /\ (\E d \in DeployIds : InFlight(d, r)) => buildConfig[r].Locked

\* C1 witness: a webhook-started run is in flight while the startup deploy
\* waits for the lock and another request has failed its TryLock
C1_Witness ==
    \E d \in DeployIds, e \in DeployIds, h \in Hooks :
        /\ InFlight(d, RepoA) /\ deploys[d].pc = "clone"
        /\ deploys[e].pc = "lock" /\ deploys[e].repoName = RepoA
        /\ hooks[h].pc = "setQueued"

\* the runs of r during which some request was answered "queued"
QueuedDuring(r) ==
    {hooks[h].sawRun : h \in {g \in Hooks : hooks[g].req.FullName = r /\ hooks[g].sawRun > 0}}

\* C2 (as claimed): the requests that arrive while a run is in flight get
\* exactly one further run, whatever their number: when everything has
\* ended, the re-runs taken are as many as the runs during which requests
\* were queued.
C2_ExactlyOneFurtherRun ==
    \A r \in DOMAIN buildConfig :
        Quiescent(r) => stats[r].reruns = Cardinality(QueuedDuring(r))

\* C3 (as claimed): the queued flag is never true while the build lock is free.
C3_QueuedOnlyWhileLocked ==
    \A r \in DOMAIN buildConfig : buildConfig[r].Queued => buildConfig[r].Locked

\* goroutine d has found Queued set when its run ended and has not yet
\* entered the re-run's body
InRerunWindow(d) ==
    \/ deploys[d].pc = "rerun"
    \/ deploys[d].pc = "defer" /\ buildConfig[deploys[d].repoName].Queued

\* C4: when a run ends with Queued set, the flag is cleared and the re-run
\* begins in the same goroutine with the lock held throughout: in no step of
\* that window is the lock free, and no other goroutine begins a run.
C4_RerunKeepsLock ==
    [][\A d \in DeployIds :
         InRerunWindow(d) =>
            LET r == deploys[d].repoName
            IN  /\ buildConfig[r].Locked /\ buildConfig'[r].Locked
                /\ deploys'[d].repoName = r
                /\ deploys'[d].pc \in {"defer", "rerun", "start"}
                /\ deploys'[d].pc = "start" => ~buildConfig'[r].Queued
                /\ \A e \in DeployIds \ {d} : ~InFlight(e, r)'
                /\ stats'[r].started - stats[r].started =
                     IF deploys'[d].pc = "start" THEN 1 ELSE 0]_vars

\* C4 witness: a re-run has begun under the lock while a request that failed
\* its TryLock has not yet set the flag
C4_Witness ==
    \E d \in DeployIds, h \in Hooks :
        /\ deploys[d].pc = "start" /\ stats[deploys[d].repoName].reruns > 0
        /\ buildConfig[deploys[d].repoName].Locked
        /\ hooks[h].pc = "setQueued"

\* C5 (as claimed): every run ends by re-running or by releasing the lock,
\* so that once every run has ended and every request was handled the
\* repository is Idle: lock free, queued false.
C5_ReturnsToIdle ==
    \A r \in DOMAIN buildConfig :
        Quiescent(r) => ~buildConfig[r].Locked /\ ~buildConfig[r].Queued

\* the part of C5 the code keeps: no exit path of a run leaks the lock
LockReleasedWhenQuiescent ==
    \A r \in DOMAIN buildConfig : Quiescent(r) => ~buildConfig[r].Locked

\* the run of goroutine d has returned and its deferred cleanup is done
RunEnded(d) == deploys[d].pc \in {"defer", "rerun", "unlock"}
\* the positions of the run's log that issue one of the operations ops
Issued(d, ops) == {i \in 1..Len(deploys[d].log) : deploys[d].log[i].op \in ops}

Deployed(d) ==
    deploys[d].pc \in {"defer_rm", "defer", "rerun", "unlock"} /\ deploys[d].failedAt = ""
SnapshotIds(d) ==
    {deploys[d].imagesRaw[i].ID : i \in {j \in 1..Len(deploys[d].imagesRaw) :
                                            deploys[d].imagesRaw[j].ok}}
RmiCount(d, id) ==
    Cardinality({i \in Issued(d, {"rmi"}) : deploys[d].log[i].arg = id})

\* C7 (as claimed): after a successful deploy the pruning has issued a
\* removal for every snapshot id other than the new image's, none for the new
\* image's id, and at most one per id.
C7_PruneSparesNewImage ==
    \A d \in DeployIds :
        Deployed(d) =>
            /\ \A id \in SnapshotIds(d) \ {deploys[d].newId} : RmiCount(d, id) = 1
            /\ RmiCount(d, deploys[d].newId) = 0
            /\ \A id \in 1..MaxImageId : RmiCount(d, id) <= 1

\* what the pruning does: one removal for every distinct id of the snapshot,
\* the new image's id included when the snapshot lists it
PruneRemovesEverySnapshotId ==
    \A d \in DeployIds :
        Deployed(d) =>
            \A id \in 1..MaxImageId :
                RmiCount(d, id) = IF id \in SnapshotIds(d) THEN 1 ELSE 0

\* ------------------------------------------------- the webhook endpoint
\* The manager configured with RepoA alone; one handler is offered a signed
\* push of RepoA's default branch, another every delivery of Deliveries.
\* With this configuration RepoA's container name is not registered and a
\* deploy run ends at its first step.
InitHook == Init /\ Len(config) = 1 /\ dockerImages[RepoA] = <<>>

NextHook ==
    \/ MainCheck
    \/ MainServe
    \/ HandleDelivery(1, PushA)
    \/ hooks[2].pc = "idle" /\ \E req \in Deliveries : HandleDelivery(2, req)
    \/ \E h \in Hooks : HookSetQueued(h)
    \/ \E d \in DeployIds :
          DeployStart(d) \/ DeployCheck1(d) \/ DeployDefer(d) \/ DeployRerun(d)
          \/ DeployUnlock(d)

SpecHook == InitHook /\ [][NextHook]_vars

\* handler h answers a delivery in this step
Answered(h) == hooks[h].pc = "idle" /\ hooks'[h].pc # "idle"
\* the step leaves every lock and queued flag alone and starts no deploy
BuildUntouched == buildConfig' = buildConfig /\ deploys' = deploys

\* the delivery passes the checks made before the repository is looked up:
\* GitHub's user agent, the JSON content type, a readable JSON body
WellFormed(req) ==
    /\ req.agent = "GitHub-Hookshot/044aadd"
    /\ req.contentType = "application/json"
    /\ req.readOk /\ req.jsonOk
\* the signature header is the HMAC (SHA-1 or SHA-256) of the body under the
\* secret registered for the delivery's repository
Verified(req) ==
    /\ req.FullName \in DOMAIN buildConfig
    /\ LET header == IF req.sig256 # SigNone THEN req.sig256 ELSE req.sig
       IN  /\ header.form = "kv" /\ header.hex
           /\ header.sigType \in {"sha1", "sha256"}
           /\ header.dKey = buildConfig[req.FullName].Secret
           /\ header.dBody = req.body
\* a push whose ref is exactly refs/heads/<default branch of the payload>
TargetsDefaultBranch(req) ==
    req.event = "push" /\ req.Ref = S_refs \o Sl \o S_heads \o Sl \o req.DefaultBranch
\* a ping, or a push to a tag, to another branch or with a malformed ref
Ignored(req) == req.event = "ping" \/ (req.event = "push" /\ ~TargetsDefaultBranch(req))

\* C8 (as claimed): a delivery touches the build state or starts a deploy only
\* if it is a push to the payload's default branch; a ping and a push to a
\* tag, another branch or a malformed ref (of a well-formed, verified
\* delivery) are answered 200 and touch nothing.
C8_IgnoredAnswered200 ==
    [][\A h \in Hooks :
         Answered(h) =>
            LET req == hooks'[h].req
            IN  /\ (~BuildUntouched \/ hooks'[h].pc = "setQueued") => TargetsDefaultBranch(req)
                /\ (WellFormed(req) /\ Verified(req) /\ Ignored(req)) =>
                      hooks'[h].status = 200 /\ BuildUntouched]_vars

\* C8 (amended): as above, the answer being 200 for a ping and for a push of
\* a repository that is not private; an ignored push of a private repository
\* is answered 500, and touches nothing either.
C8_IgnoredLeavesBuildState ==
    [][\A h \in Hooks :
         Answered(h) =>
            LET req == hooks'[h].req
            IN  /\ (~BuildUntouched \/ hooks'[h].pc = "setQueued") => TargetsDefaultBranch(req)
                /\ Ignored(req) => BuildUntouched /\ hooks'[h].pc = "done"
                /\ (WellFormed(req) /\ Verified(req) /\ Ignored(req)) =>
                      hooks'[h].status =
                         IF req.event = "push" /\ req.Private THEN 500 ELSE 200]_vars

\* C8 witness: a verified push to a tag was answered 200 while a deploy of
\* the repository holds the lock
C8_Witness ==
    \E h \in Hooks :
        /\ hooks[h].pc = "done" /\ hooks[h].status = 200
        /\ WellFormed(hooks[h].req) /\ Verified(hooks[h].req)
        /\ hooks[h].req.event = "push" /\ ~hooks[h].req.Private
        /\ hooks[h].req.Ref = S_refs \o Sl \o S_tags \o Sl \o BranchM
        /\ buildConfig[RepoA].Locked /\ ~buildConfig[RepoA].Queued

\* C9: a delivery whose signature does not verify against its repository's
\* secret, or whose repository is not registered, never touches the build
\* state and starts no deploy; when it reaches the signature check (it is
\* well-formed) it is answered 401 whatever its event type and ref.
C9_UnverifiedIsDenied ==
    [][\A h \in Hooks :
         Answered(h) =>
            LET req == hooks'[h].req
            IN  ~Verified(req) =>
                   /\ BuildUntouched
                   /\ hooks'[h].pc = "done"
                   /\ hooks'[h].status # 200
                   /\ WellFormed(req) => hooks'[h].status = 401]_vars

\* C9 witness: a well-formed ping signed with the wrong key was answered 401
C9_Witness ==
    \E h \in Hooks :
        /\ hooks[h].pc = "done" /\ hooks[h].status = 401
        /\ WellFormed(hooks[h].req) /\ hooks[h].req.event = "ping"
        /\ hooks[h].req.FullName = RepoA
        /\ hooks[h].req.sig = SigWrongKey /\ hooks[h].req.sig256 = SigNone

\* ------------------------------------------------------------- activation
\* The manager configured with RepoA and an entry named like RepoA's
\* container, so that the container is registered; the container exists when
\* the manager starts.  Proxied requests, the scheduler and the clock.
StoppedContainer == [RunningContainer EXCEPT !.running = FALSE]
PausedContainer == [RunningContainer EXCEPT !.paused = TRUE]

InitServe ==
    /\ config = <<[Name |-> RepoA, Secret |-> "s1"], [Name |-> BsAB, Secret |-> "s2"]>>
    /\ containerStates = Registered(config).cs
    /\ buildConfig = Registered(config).bc
    /\ \E c \in {StoppedContainer, RunningContainer, PausedContainer} :
         dockerd = [n \in ContainerNames |->
                      IF n = RepoNameToContainerName(RepoA) THEN c ELSE NoContainer]
    /\ dockerImages = [r \in RepoNames |-> <<>>]
    /\ now = 0
    /\ main = [pc |-> "loop", i |-> 1, pend |-> NoInspect]
    /\ hooks = [h \in Hooks |-> IdleHook]
    /\ deploys = [d \in DeployIds |-> FreeDeploy]
    /\ stats = [r \in DOMAIN buildConfig |-> [started |-> 0, reruns |-> 0]]
    /\ proxies = [p \in Proxies |-> IdleProxy]
    /\ sched = IdleSched
    /\ call = IdleCall
    /\ containerStateMutext = [writer |-> "", readers |-> {}]
    /\ threads = [t \in Threads |-> IdleThread]

ProxyNext ==
    \E p \in Proxies :
        \/ \E id \in PathIds : ProxyBegin(p, id)
        \/ ProxyInspect(p) \/ ProxyInspectUpdate(p) \/ ProxyRead(p)
        \/ ProxyUnpause(p) \/ ProxyUnpauseUpdate(p)
        \/ ProxyStart(p) \/ ProxyStartInspect(p) \/ ProxyStartUpdate(p)
        \/ ProxyForward(p) \/ ProxyWrite(p) \/ ProxyUpdateUsed(p)

SchedNext ==
    \/ SchedPass \/ SchedStop \/ SchedStopUpdate \/ SchedPause \/ SchedPauseUpdate
    \/ SchedSleep \/ SchedWake

NextServe == MainNext \/ ProxyNext \/ SchedNext \/ Tick

SpecServe == InitServe /\ [][NextServe]_vars

\* EnsureContainerRunning returns nil to handler p in this step
ReturnsNil(p) ==
    /\ proxies[p].pc \in {"read", "unpause_upd", "start_upd"}
    /\ proxies'[p].pc = "ensured"
\* the requests other than inspect a handler sent to the daemon
Writes(ops) == SelectSeq(ops, LAMBDA op : op # "inspect")

\* C10: EnsureContainerRunning on a registered name inspects first iff the
\* cache entry is stale, then sends exactly one unpause if the state it reads
\* is running and paused, exactly one start if it is not running, nothing
\* otherwise; when it returns nil the cache entry is running and not paused.
C10_SuccessMeansServing ==
    [][\A p \in Proxies :
         ReturnsNil(p) =>
            LET rec == proxies'[p]
            IN  /\ rec.stale <=> (rec.ops # <<>> /\ rec.ops[1] = "inspect")
                /\ Writes(rec.ops) = CASE rec.seen = "paused" -> <<"unpause">>
                                       [] rec.seen = "stopped" -> <<"start">>
                                       [] OTHER -> <<>>
                /\ containerStates'[rec.id].Running
                /\ ~containerStates'[rec.id].Paused]_vars

\* the part of C10 about the requests sent, without the state of the cache
\* on return
EnsureSendsOneWrite ==
    [][\A p \in Proxies :
         ReturnsNil(p) =>
            LET rec == proxies'[p]
            IN  /\ rec.stale <=> (rec.ops # <<>> /\ rec.ops[1] = "inspect")
                /\ Writes(rec.ops) = CASE rec.seen = "paused" -> <<"unpause">>
                                       [] rec.seen = "stopped" -> <<"start">>
                                       [] OTHER -> <<>>]_vars

\* ------------------------------------------------------------ last use
\* the step is the UpdateUsed of a handler for container n whose request
\* was forwarded and whose response was written
NotesUse(p, n) ==
    /\ proxies[p].pc = "used" /\ proxies'[p].pc = "done"
    /\ proxies[p].id = n
    /\ proxies[p].forwarded /\ proxies[p].wrote /\ proxies[p].err = ErrNone

\* C11: an entry's LastUsed changes only in the UpdateUsed step of a proxy
\* handler for that container, which is reached only after the request was
\* forwarded and the response written; it is then set to the current time.
\* Startup inspection, EnsureContainerRunning, the scheduler's stop and pause
\* and every update* leave it as it was, and a handler that met an error
\* ends without reaching UpdateUsed.
C11_LastUsedOnlyAfterForward ==
    [][/\ \A n \in DOMAIN containerStates :
            containerStates'[n].LastUsed # containerStates[n].LastUsed =>
                /\ \E p \in Proxies : NotesUse(p, n)
                /\ containerStates'[n].LastUsed = now
       /\ \A p \in Proxies :
            proxies'[p].err # ErrNone => proxies'[p].pc = "done"]_vars

\* a request was activated (by unpause or start), forwarded and answered, and
\* its use recorded
C11_Witness ==
    \E p \in Proxies :
        /\ proxies[p].pc = "done" /\ proxies[p].err = ErrNone
        /\ proxies[p].wrote
        /\ Writes(proxies[p].ops) # <<>>
        /\ containerStates[proxies[p].id].LastUsed # Nil

\* ------------------------------------------------------- scheduler pass
\* One pass of stopOldContainersJob over a cache that holds two containers
\* in every combination of running, paused and time of last use.  The
\* manager is configured with RepoA, with an entry named like RepoA's
\* container and with an entry named like that entry's container, so that
\* both containers are registered.
BsBsAB == RepoNameToContainerName(BsAB)

\* the time of the pass, late enough for a use more than an hour old
SchedNow == 7200

\* how long before the pass an entry was last used
Idles == {0, 30, 59, 60, 61, 3570, 3599, 3600, SchedNow}

\* the entries startup, activation, proxying and earlier passes leave behind
SchedEntries ==
    {[Running |-> f.running, Paused |-> f.paused, LastUsed |-> u,
      IPAddress |-> IF f.running THEN RunningContainer.ip ELSE "",
      LastUpdate |-> SchedNow] :
        f \in {[running |-> FALSE, paused |-> FALSE],
               [running |-> TRUE, paused |-> FALSE],
               [running |-> TRUE, paused |-> TRUE]},
        u \in {Nil} \cup {SchedNow - i : i \in Idles}}

\* the container the daemon holds for an entry
ContainerOf(e) ==
    [RunningContainer EXCEPT !.running = e.Running, !.paused = e.Paused]

InitSched ==
    /\ config = <<[Name |-> RepoA, Secret |-> "s1"], [Name |-> BsAB, Secret |-> "s2"],
                  [Name |-> BsBsAB, Secret |-> "s3"]>>
    /\ buildConfig = Registered(config).bc
    /\ \E e1 \in SchedEntries, e2 \in SchedEntries :
         /\ containerStates = [n \in DOMAIN Registered(config).cs |->
                                 IF n = BsAB THEN e1
                                 ELSE IF n = BsBsAB THEN e2
                                 ELSE Registered(config).cs[n]]
         /\ dockerd = [n \in ContainerNames |->
                         IF n = BsAB THEN ContainerOf(e1)
                         ELSE IF n = BsBsAB THEN ContainerOf(e2)
                         ELSE NoContainer]
    /\ dockerImages = [r \in RepoNames |-> <<>>]
    /\ now = SchedNow
    /\ main = [pc |-> "serve", i |-> Len(config) + 1, pend |-> NoInspect]
    /\ hooks = [h \in Hooks |-> IdleHook]
    /\ deploys = [d \in DeployIds |-> FreeDeploy]
    /\ stats = [r \in DOMAIN buildConfig |-> [started |-> 0, reruns |-> 0]]
    /\ proxies = [p \in Proxies |-> IdleProxy]
    /\ sched = IdleSched
    /\ call = IdleCall
    /\ containerStateMutext = [writer |-> "", readers |-> {}]
    /\ threads = [t \in Threads |-> IdleThread]

NextSched ==
    \/ SchedPass \/ SchedStop \/ SchedStopUpdate \/ SchedPause \/ SchedPauseUpdate
    \/ SchedSleep

SpecSched == InitSched /\ [][NextSched]_vars

\* the step is the pass over the cache: the entries are classified and the
\* delay computed
PassStep == sched.pc = "run" /\ sched'.pc = "loop"
\* the pass is over and nothing has been issued yet
PassDone == sched.pc = "loop" /\ sched.issued = <<>>

\* the time an entry that was used has been idle
Idle(c) == now - c.LastUsed
\* the threshold of a running entry
Threshold(c) == IF c.Paused THEN STOP_DELAY ELSE PAUSE_DELAY
\* a running entry that was used and has been idle for less than its threshold
KeptEntry(c) == c.Running /\ c.LastUsed # Nil /\ Idle(c) < Threshold(c)
Contribution(c) == Threshold(c) - Idle(c)
Contributions == {Contribution(containerStates[n]) :
                    n \in {m \in DOMAIN containerStates : KeptEntry(containerStates[m])}}

\* C12: in one pass, with idle = now - LastUsed, an entry running and not
\* paused is kept with contribution (1 minute - idle) when idle < 1 minute
\* and pause-due when idle >= 1 minute; a paused entry is kept with
\* contribution (1 hour - idle) when idle < 1 hour and stop-due when
\* idle >= 1 hour; an entry not running is never due and contributes nothing.
C12_PassClassifies ==
    [][PassStep =>
        /\ \A n \in DOMAIN containerStates :
             LET c == containerStates[n]
                 kept == /\ n \notin sched'.toStop \cup sched'.toPause
                         /\ sched'.nextRunner <= Contribution(c)
             IN  /\ (c.Running /\ c.LastUsed # Nil /\ ~c.Paused) =>
                        IF Idle(c) < 60 THEN kept /\ Contribution(c) = 60 - Idle(c)
                        ELSE n \in sched'.toPause /\ n \notin sched'.toStop
                 /\ (c.Running /\ c.LastUsed # Nil /\ c.Paused) =>
                        IF Idle(c) < 3600 THEN kept /\ Contribution(c) = 3600 - Idle(c)
                        ELSE n \in sched'.toStop /\ n \notin sched'.toPause
                 /\ ~c.Running => n \notin sched'.toStop \cup sched'.toPause
        /\ sched'.nextRunner \in Contributions \cup {DefaultDelay}]_vars

\* a pass that met a paused entry idle for exactly one hour (stop-due) and a
\* running entry idle for 59 seconds (kept, contributing one second)
C12_Witness ==
    /\ PassDone
    /\ \E n \in sched.toStop :
         containerStates[n].Paused /\ containerStates[n].LastUsed = now - 3600
    /\ \E n \in DOMAIN containerStates :
         /\ containerStates[n].Running /\ ~containerStates[n].Paused
         /\ containerStates[n].LastUsed = now - 59
         /\ n \notin sched.toPause
    /\ sched.nextRunner = 1

\* C13: a running entry whose LastUsed is absent is pause-due when it is not
\* paused and stop-due when it is paused; it is never kept.
C13_NeverUsedIsDue ==
    [][PassStep =>
        \A n \in DOMAIN containerStates :
            LET c == containerStates[n]
            IN  (c.Running /\ c.LastUsed = Nil) =>
                   /\ ~c.Paused => n \in sched'.toPause /\ n \notin sched'.toStop
                   /\ c.Paused => n \in sched'.toStop /\ n \notin sched'.toPause
                   /\ sched'.nextRunner \in Contributions \cup {DefaultDelay}]_vars

\* a pass that met a never-used running entry and a never-used paused one
C13_Witness ==
    /\ PassDone
    /\ \E n \in sched.toPause : containerStates[n].LastUsed = Nil
    /\ \E n \in sched.toStop : containerStates[n].LastUsed = Nil

\* the least element of a non-empty set of numbers
Least(S) == CHOOSE x \in S : \A y \in S : x <= y

\* C14 (as claimed): the delay a pass returns is the minimum contribution
\* over all kept entries, and the fallback of one hour when none is kept.
C14_DelayIsMinOrOneHour ==
    [][PassStep =>
        sched'.nextRunner = IF Contributions = {} THEN 3600
                            ELSE Least(Contributions)]_vars

\* C14 (amended): the delay a pass returns is the minimum of one minute and
\* of the contributions of all kept entries: one minute when none is kept,
\* and never more than one minute.
C14_DelayIsMinCappedAtOneMinute ==
    [][PassStep =>
        sched'.nextRunner = Least(Contributions \cup {60})]_vars

\* a pass whose only kept entry is paused with 30 seconds of idle time: it
\* contributes 3570 seconds and the delay is one minute
C14_Witness ==
    /\ PassDone
    /\ Contributions = {3570}
    /\ sched.nextRunner = 60

\* a pass with two kept entries returns the smaller contribution
C14_WitnessMin ==
    /\ PassDone
    /\ Contributions = {30, 3570}
    /\ sched.nextRunner = 30

\* the names of the calls of one kind issued in this pass
IssuedNames(op) ==
    {sched.issued[i].name : i \in {j \in 1..Len(sched.issued) : sched.issued[j].op = op}}

\* C16: in each pass a stop is issued for every stop-due entry and then a
\* pause for every pause-due entry, every stop before every pause; a stop
\* or pause that fails does not keep the others from being issued and does
\* not end the loop.
C16_StopsThenPauses ==
    /\ \A i \in 1..Len(sched.issued), j \in 1..Len(sched.issued) :
         (sched.issued[i].op = "pause" /\ sched.issued[j].op = "stop") => j < i
    /\ sched.pc = "sleep" =>
         /\ IssuedNames("stop") = sched.dueStop
         /\ IssuedNames("pause") = sched.duePause
         /\ Len(sched.issued) = Cardinality(sched.dueStop) + Cardinality(sched.duePause)
    /\ sched.pc \in {"loop", "stop_upd", "pause_upd"} =>
         /\ IssuedNames("stop") \cup sched.toStop = sched.dueStop
         /\ IssuedNames("pause") \cup sched.toPause = sched.duePause

\* a pass whose stop failed, whose pause was issued all the same, and which
\* went on to its sleep
C16_Witness ==
    /\ sched.pc = "sleep"
    /\ Len(sched.issued) = 2
    /\ sched.issued[1].op = "stop" /\ sched.issued[1].err # ErrNone
    /\ sched.issued[2].op = "pause" /\ sched.issued[2].err = ErrNone

\* ------------------------------------------------------------ the sleep
\* a running entry whose idle time has reached its threshold; an entry never
\* used counts as idle for ever
PastThreshold(c) == c.Running /\ (c.LastUsed = Nil \/ Idle(c) >= Threshold(c))

\* C15 (as claimed): the scheduler wakes no later than the earliest
\* threshold crossing: while it is asleep (its wake-up time not reached) no
\* running entry has an idle time that has reached its threshold, entries
\* started, unpaused or used after the pass included.
C15_NeverAsleepPastThreshold ==
    (sched.pc = "sleep" /\ now < sched.wake) =>
        \A n \in DOMAIN containerStates : ~PastThreshold(containerStates[n])

\* the case of C15 that needs no failure: the pass found nothing due and
\* issued nothing, and an entry activated since is past its threshold while
\* the scheduler sleeps
AsleepAfterCleanPass ==
    /\ sched.pc = "sleep" /\ now < sched.wake
    /\ sched.issued = <<>>
    /\ \E n \in DOMAIN containerStates : PastThreshold(containerStates[n])

\* ------------------------------------------------------- package docker
\* The functions of package docker called one after the other by a single
\* caller, on a name that gets registered (BsAB) and on one that never is
\* (BsBsAB), while the clock advances.  The cache starts as the empty map of
\* cache.go:16.
CacheNames == {BsAB, BsBsAB}
Addresses == {"", RunningContainer.ip}
RuntimeOps ==
    {"CheckContainer", "StartContainer", "StopContainer", "PauseContainer",
     "UnpauseContainer", "EnsureContainerRunning"}

\* the caller is between two calls
CallFree == call.pc \in {"idle", "done"}
\* the call has returned err
Ended(rec, err) == [rec EXCEPT !.pc = "done", !.err = err]
Called(op, name) == [IdleCall EXCEPT !.op = op, !.name = name]
\* `if !found { return ErrorNotRegistered }`
FoundErr(name) == IF name \in DOMAIN containerStates THEN ErrNone ELSE ErrorNotRegistered

\* cache.go:73-81
CallRegister ==
    /\ CallFree
    /\ containerStates' = RegisterContainer(containerStates, BsAB)
    /\ call' = Ended(Called("RegisterContainer", BsAB), ErrNone)
    /\ UNCHANGED <<config, buildConfig, dockerd, dockerImages, now, main, hooks, deploys,
                   stats, proxies, sched,
                   containerStateMutext, threads>>

\* cache.go:32-41
CallGetState(name) ==
    /\ CallFree
    /\ call' = Ended(Called("GetState", name), FoundErr(name))
    /\ UNCHANGED <<config, containerStates, buildConfig, dockerd, dockerImages, now,
                   main, hooks, deploys, stats, proxies, sched,
                   containerStateMutext, threads>>

\* cache.go:83-99
CallUpdateState(name) ==
    /\ CallFree
    /\ \E running \in BOOLEAN, paused \in BOOLEAN, ip \in Addresses :
         containerStates' = updateState(containerStates, name, running, paused, ip)
    /\ call' = Ended(Called("updateState", name), FoundErr(name))
    /\ UNCHANGED <<config, buildConfig, dockerd, dockerImages, now, main, hooks, deploys,
                   stats, proxies, sched,
                   containerStateMutext, threads>>

\* cache.go:100-115
CallUpdateRunning(name) ==
    /\ CallFree
    /\ \E running \in BOOLEAN, paused \in BOOLEAN :
         containerStates' = updateRunning(containerStates, name, running, paused)
    /\ call' = Ended(Called("updateRunning", name), FoundErr(name))
    /\ UNCHANGED <<config, buildConfig, dockerd, dockerImages, now, main, hooks, deploys,
                   stats, proxies, sched,
                   containerStateMutext, threads>>

\* cache.go:116-130
CallUpdatePaused(name) ==
    /\ CallFree
    /\ \E paused \in BOOLEAN :
         containerStates' = updatePaused(containerStates, name, paused)
    /\ call' = Ended(Called("updatePaused", name), FoundErr(name))
    /\ UNCHANGED <<config, buildConfig, dockerd, dockerImages, now, main, hooks, deploys,
                   stats, proxies, sched,
                   containerStateMutext, threads>>

\* cache.go:132-146
CallUpdateUsed(name) ==
    /\ CallFree
    /\ containerStates' = UpdateUsed(containerStates, name)
    /\ call' = Ended(Called("UpdateUsed", name), FoundErr(name))
    /\ UNCHANGED <<config, buildConfig, dockerd, dockerImages, now, main, hooks, deploys,
                   stats, proxies, sched,
                   containerStateMutext, threads>>

\* the command a function sends first, if it sends one
ActionOf(op) ==
    CASE op = "StartContainer" -> "start"
      [] op = "StopContainer" -> "stop"
      [] op = "PauseContainer" -> "pause"
      [] op = "UnpauseContainer" -> "unpause"
      [] OTHER -> ""

\* a function of init.go is entered; EnsureContainerRunning's
\* `if IsStale(name)` (init.go:147)
CallBegin(name) ==
    /\ CallFree
    /\ \E op \in RuntimeOps :
         call' = [Called(op, name) EXCEPT
                    !.action = ActionOf(op),
                    !.pc = IF op = "CheckContainer" THEN "inspect"
                           ELSE IF op = "EnsureContainerRunning"
                           THEN (IF IsStale(name) THEN "inspect" ELSE "read")
                           ELSE "cmd"]
    /\ UNCHANGED <<config, containerStates, buildConfig, dockerd, dockerImages, now,
                   main, hooks, deploys, stats, proxies, sched,
                   containerStateMutext, threads>>

\* init.go:117-126  CheckContainer up to the answer of the daemon
CallInspect ==
    /\ call.pc = "inspect"
    /\ IF ~IsRegistered(call.name)
       THEN call' = Ended(call, ErrorNotRegistered)
       ELSE \E fail \in BOOLEAN :
              LET r == InspectResult(call.name, fail)
                  sent == [call EXCEPT !.sent = Append(@, "inspect")]
              IN  call' = IF r.err # ErrNone THEN Ended(sent, r.err)
                          ELSE [sent EXCEPT !.pc = "inspect_upd", !.pend = r]
    /\ UNCHANGED <<config, containerStates, buildConfig, dockerd, dockerImages, now,
                   main, hooks, deploys, stats, proxies, sched,
                   containerStateMutext, threads>>

\* init.go:128-143  CheckContainer's updateState; CheckContainer and
\* StartContainer return, EnsureContainerRunning goes on to GetState
CallInspectUpdate ==
    /\ call.pc = "inspect_upd"
    /\ containerStates' = updateState(containerStates, call.name, call.pend.Running,
                                      call.pend.Paused, call.pend.ip)
    /\ call' = IF call.op = "EnsureContainerRunning" /\ call.action = ""
               THEN [call EXCEPT !.pc = "read"]
               ELSE Ended(call, FoundErr(call.name))
    /\ UNCHANGED <<config, buildConfig, dockerd, dockerImages, now, main, hooks, deploys,
                   stats, proxies, sched,
                   containerStateMutext, threads>>

\* init.go:154-165  GetState and the choice between unpause, start and nothing
CallRead ==
    /\ call.pc = "read"
    /\ call' = IF ~IsRegistered(call.name) THEN Ended(call, ErrorNotRegistered)
               ELSE LET state == containerStates[call.name]
                    IN  IF state.Running /\ state.Paused
                        THEN [call EXCEPT !.pc = "cmd", !.action = "unpause"]
                        ELSE IF ~state.Running
                        THEN [call EXCEPT !.pc = "cmd", !.action = "start"]
                        ELSE Ended(call, ErrNone)
    /\ UNCHANGED <<config, containerStates, buildConfig, dockerd, dockerImages, now,
                   main, hooks, deploys, stats, proxies, sched,
                   containerStateMutext, threads>>

\* a command whose failure is written to the cache as a stopped container
CallCmdClearsOnError ==
    /\ call.pc = "cmd"
    /\ \E fail \in BOOLEAN :
         LET err == IF IsRegistered(call.name)
                    THEN dockerExecCmd(call.name, call.action, fail)
                    ELSE ErrorNotRegistered
             sent == [call EXCEPT !.sent = Append(@, call.action)]
         IN  /\ dockerd' = IF IsRegistered(call.name)
                           THEN CmdEffect(call.name, call.action, fail) ELSE dockerd
             /\ call' = IF err = ErrorNotRegistered THEN Ended(call, err)
                        ELSE IF err # ErrNone THEN Ended(sent, err)
                        ELSE [sent EXCEPT !.pc = IF call.action = "start"
                                                 THEN "inspect" ELSE "cmd_upd"]
             /\ containerStates' =
                  IF err \in {ErrNone, ErrorNotRegistered} THEN containerStates
                  ELSE updateRunning(containerStates, call.name, FALSE, FALSE)
    /\ UNCHANGED <<config, buildConfig, dockerImages, now, main, hooks, deploys, stats,
                   proxies, sched,
                   containerStateMutext, threads>>

\* init.go:168-176, 183-191, 195-203, 207-215  the registration check and
\* dockerExecCmd
CallCmd ==
    /\ call.pc = "cmd"
    /\ IF ~IsRegistered(call.name)
       THEN /\ call' = Ended(call, ErrorNotRegistered)
            /\ UNCHANGED dockerd
       ELSE \E fail \in BOOLEAN :
              LET err == dockerExecCmd(call.name, call.action, fail)
                  sent == [call EXCEPT !.sent = Append(@, call.action)]
              IN  /\ dockerd' = CmdEffect(call.name, call.action, fail)
                  /\ call' = IF err # ErrNone THEN Ended(sent, err)
                             ELSE [sent EXCEPT !.pc = IF call.action = "start"
                                                      THEN "inspect" ELSE "cmd_upd"]
    /\ UNCHANGED <<config, containerStates, buildConfig, dockerImages, now, main, hooks,
                   deploys, stats, proxies, sched,
                   containerStateMutext, threads>>

\* init.go:193, 205, 217  the cache update after the command
CallCmdUpdate ==
    /\ call.pc = "cmd_upd"
    /\ containerStates' =
         CASE call.action = "stop" ->
                updateRunning(containerStates, call.name, FALSE, FALSE)
           [] call.action = "pause" -> updatePaused(containerStates, call.name, TRUE)
           [] OTHER -> updatePaused(containerStates, call.name, FALSE)
    /\ call' = Ended(call, FoundErr(call.name))
    /\ UNCHANGED <<config, buildConfig, dockerd, dockerImages, now, main, hooks, deploys,
                   stats, proxies, sched,
                   containerStateMutext, threads>>

InitCache ==
    /\ config = <<>>
    /\ containerStates = Registered(config).cs
    /\ buildConfig = Registered(config).bc
    /\ \E c \in {NoContainer, StoppedContainer, RunningContainer, PausedContainer} :
         dockerd = [n \in ContainerNames |->
                      IF n = BsAB THEN c
                      ELSE IF n = BsBsAB THEN RunningContainer
                      ELSE NoContainer]
    /\ dockerImages = [r \in RepoNames |-> <<>>]
    /\ now = 0
    /\ main = [pc |-> "serve", i |-> 1, pend |-> NoInspect]
    /\ hooks = [h \in Hooks |-> IdleHook]
    /\ deploys = [d \in DeployIds |-> FreeDeploy]
    /\ stats = [r \in DOMAIN buildConfig |-> [started |-> 0, reruns |-> 0]]
    /\ proxies = [p \in Proxies |-> IdleProxy]
    /\ sched = IdleSched
    /\ call = IdleCall
    /\ containerStateMutext = [writer |-> "", readers |-> {}]
    /\ threads = [t \in Threads |-> IdleThread]

NextCache ==
    \/ CallRegister
    \/ \E name \in CacheNames :
         \/ CallGetState(name) \/ CallUpdateState(name) \/ CallUpdateRunning(name)
         \/ CallUpdatePaused(name) \/ CallUpdateUsed(name) \/ CallBegin(name)
    \/ CallInspect \/ CallInspectUpdate \/ CallRead \/ CallCmd \/ CallCmdUpdate
    \/ Tick

SpecCache == InitCache /\ [][NextCache]_vars

\* the step is a whole call of op, from entry to return
CallOf(op) == CallFree /\ call'.pc = "done" /\ call'.op = op /\ now' = now
\* the entries other than name are what they were
OthersKept(name) ==
    \A n \in DOMAIN containerStates \ {name} : containerStates'[n] = containerStates[n]

\* C17: RegisterContainer(id) on an absent id creates the entry running =
\* false, paused = false, empty address, no LastUsed, no LastUpdate and
\* touches no other entry; on a registered id it changes nothing; no step
\* removes an entry, and GetState of a registered id returns no error.
C17_RegisterCreatesOnce ==
    [][/\ CallOf("RegisterContainer") =>
            IF call'.name \in DOMAIN containerStates
            THEN containerStates' = containerStates
            ELSE /\ DOMAIN containerStates' = DOMAIN containerStates \cup {call'.name}
                 /\ containerStates'[call'.name] =
                       [Running |-> FALSE, Paused |-> FALSE, LastUsed |-> Nil,
                        IPAddress |-> "", LastUpdate |-> Nil]
                 /\ OthersKept(call'.name)
       /\ DOMAIN containerStates \subseteq DOMAIN containerStates'
       /\ (CallOf("GetState") /\ call'.name \in DOMAIN containerStates) =>
            call'.err = ErrNone]_vars

\* RegisterContainer has just returned for an entry that had been refreshed
\* and used before: the entry still holds what was written to it
C17_Witness ==
    /\ call.pc = "done" /\ call.op = "RegisterContainer"
    /\ call.name \in DOMAIN containerStates
    /\ containerStates[call.name].LastUpdate # Nil
    /\ containerStates[call.name].LastUsed # Nil
    /\ containerStates[call.name].Running

\* the step returns NotRegistered, sends nothing and changes neither the
\* cache nor the daemon
Refused ==
    /\ call'.pc = "done" /\ call'.err = ErrorNotRegistered
    /\ call'.sent = <<>>
    /\ containerStates' = containerStates
    /\ dockerd' = dockerd

\* C18: for an id that is not registered, GetState, updateState,
\* updateRunning, updatePaused, UpdateUsed, CheckContainer, StartContainer,
\* StopContainer, PauseContainer, UnpauseContainer and
\* EnsureContainerRunning return NotRegistered, create no entry, change no
\* entry and send no request to the daemon.
C18_UnregisteredIsRefused ==
    [][/\ \A op \in {"GetState", "updateState", "updateRunning", "updatePaused",
                      "UpdateUsed"} :
            (CallOf(op) /\ call'.name \notin DOMAIN containerStates) => Refused
       /\ (CallFree /\ call'.op \in RuntimeOps /\ now' = now
           /\ call'.name \notin DOMAIN containerStates) =>
            /\ call'.pc \in {"inspect", "cmd"}
            /\ call'.sent = <<>>
            /\ containerStates' = containerStates /\ dockerd' = dockerd
       /\ (call.pc \in {"inspect", "inspect_upd", "read", "cmd", "cmd_upd"}
           /\ call' # call
           /\ call.name \notin DOMAIN containerStates) => Refused]_vars

\* EnsureContainerRunning has returned NotRegistered for the id that was
\* never registered, while the cache holds a running entry
C18_Witness ==
    /\ call.pc = "done" /\ call.op = "EnsureContainerRunning"
    /\ call.name \notin DOMAIN containerStates
    /\ call.err = ErrorNotRegistered /\ call.sent = <<>>
    /\ \E n \in DOMAIN containerStates : containerStates[n].Running

\* what the claim says IsStale is, at the current time
StaleAsClaimed(name) ==
    \/ name \notin DOMAIN containerStates
    \/ containerStates[name].LastUpdate = Nil
    \/ now - containerStates[name].LastUpdate > 60

\* C19: IsStale is true for an unregistered id and for an entry never
\* refreshed; for an entry refreshed at t it is false at every time <= t + 60
\* and true at every time > t + 60; while the entry is not refreshed it never
\* goes back from true to false; UpdateUsed does not change it.
C19_StaleAfterSixtySeconds ==
    [][\A name \in CacheNames :
         /\ IsStale(name) <=> StaleAsClaimed(name)
         /\ IsStale(name)' <=> StaleAsClaimed(name)'
         /\ (/\ IsStale(name)
             /\ name \in DOMAIN containerStates
                  => containerStates'[name].LastUpdate = containerStates[name].LastUpdate)
                => IsStale(name)'
         /\ (name \in DOMAIN containerStates
             /\ containerStates'[name].LastUpdate # containerStates[name].LastUpdate)
                => /\ containerStates'[name].LastUpdate = now
                   /\ ~IsStale(name)'
         /\ (CallOf("UpdateUsed") /\ call'.name = name) =>
                (IsStale(name)' <=> IsStale(name))]_vars

\* an entry refreshed exactly 60 seconds ago is not stale, and it was used
\* since the refresh
C19_Witness ==
    \E name \in DOMAIN containerStates :
        /\ containerStates[name].LastUpdate # Nil
        /\ now = containerStates[name].LastUpdate + 60
        /\ containerStates[name].LastUsed = now
        /\ ~IsStale(name)

\* an entry goes stale with time
C19_WitnessStale ==
    \E name \in DOMAIN containerStates :
        /\ containerStates[name].LastUpdate # Nil
        /\ now > containerStates[name].LastUpdate + 60
        /\ IsStale(name)

\* C20: StopContainer, PauseContainer and UnpauseContainer return nil only
\* through a cache update that stamps LastUpdate with the current time and
\* sets running = false and paused = false (stop), paused = true (pause),
\* paused = false (unpause), the address and LastUsed unchanged;
\* StartContainer returns nil only after an inspect sent after the start,
\* whose running, paused and address are written to the cache with the
\* current time; a command the daemon accepted is followed by that update
\* or that inspect.
C20_WriteThenCacheUpdate ==
    [][/\ (call.pc = "cmd" /\ call' # call /\ call'.pc # "done") =>
            call'.pc = IF call.action = "start" THEN "inspect" ELSE "cmd_upd"
       /\ (call.pc # "done" /\ call'.pc = "done" /\ call'.err = ErrNone
           /\ call'.action # "") =>
            LET old == containerStates[call.name]
                new == containerStates'[call.name]
            IN  /\ call.pc = IF call.action = "start" THEN "inspect_upd" ELSE "cmd_upd"
                /\ new.LastUpdate = now
                /\ new.LastUsed = old.LastUsed
                /\ OthersKept(call.name)
                /\ CASE call.action = "stop" ->
                           /\ ~new.Running /\ ~new.Paused
                           /\ new.IPAddress = old.IPAddress
                     [] call.action = "pause" ->
                           /\ new.Paused /\ new.Running = old.Running
                           /\ new.IPAddress = old.IPAddress
                     [] call.action = "unpause" ->
                           /\ ~new.Paused /\ new.Running = old.Running
                           /\ new.IPAddress = old.IPAddress
                     [] OTHER ->
                           /\ call.sent[Len(call.sent)] = "inspect"
                           /\ call.sent[Len(call.sent) - 1] = "start"
                           /\ new.Running = call.pend.Running
                           /\ new.Paused = call.pend.Paused
                           /\ new.IPAddress = call.pend.ip]_vars

\* StartContainer has returned nil at a later time than the entry's last
\* refresh: the entry holds the address and the flags of the started container
C20_Witness ==
    /\ call.pc = "done" /\ call.op = "StartContainer" /\ call.err = ErrNone
    /\ call.sent = <<"start", "inspect">>
    /\ now > 0
    /\ containerStates[call.name] =
         [Running |-> TRUE, Paused |-> FALSE, LastUsed |-> Nil,
          IPAddress |-> RunningContainer.ip, LastUpdate |-> now]

\* UnpauseContainer has returned nil: paused is cleared and the address kept
C20_WitnessUnpause ==
    /\ call.pc = "done" /\ call.op = "UnpauseContainer" /\ call.err = ErrNone
    /\ now > 0
    /\ containerStates[call.name].Running /\ ~containerStates[call.name].Paused
    /\ containerStates[call.name].IPAddress # ""
    /\ containerStates[call.name].LastUpdate = now

\* ------------------------------------------------------ runtime failures
RuntimeErrors == {ErrorDoesNotExist, ErrorRuntime}

\* C23: when a request sent by CheckContainer, StartContainer, StopContainer,
\* PauseContainer, UnpauseContainer or EnsureContainerRunning fails, the
\* function returns that error in the same step, the failed request is the
\* last it sent, and the cache is as it was before the request.
C23_FailureReturnsAtOnce ==
    [][/\ (call.pc \in {"inspect", "cmd"} /\ call' # call) =>
            /\ containerStates' = containerStates
            /\ \/ call'.err = ErrNone /\ call'.pc # "done"
               \/ call'.err = ErrorNotRegistered /\ call'.pc = "done"
                    /\ call'.sent = call.sent /\ dockerd' = dockerd
               \/ call'.err \in RuntimeErrors /\ call'.pc = "done"
                    /\ Len(call'.sent) = Len(call.sent) + 1
                    /\ dockerd' = dockerd
       /\ (call.pc \notin {"idle", "done"} /\ call' # call) => call.err = ErrNone
       /\ (call.pc \notin {"inspect", "cmd"} /\ call' # call /\ call'.pc = "done"
           /\ call'.op \in RuntimeOps) => call'.err \notin RuntimeErrors]_vars

\* EnsureContainerRunning inspected a stale entry, found the container
\* stopped, and its start failed: the entry holds what the inspect wrote
C23_Witness ==
    /\ call.pc = "done" /\ call.op = "EnsureContainerRunning"
    /\ call.sent = <<"inspect", "start">>
    /\ call.err \in RuntimeErrors
    /\ containerStates[call.name].LastUpdate # Nil
    /\ ~containerStates[call.name].Running

\* ------------------------------------------------------ configured names
\* C28 (as claimed): the container name that the startup existence check and
\* the deploy procedure hand to CheckContainer for a configured repository
\* is a name loadConfig registered, so that the check is not refused with
\* NotRegistered.
C28_ConfiguredNameIsRegistered ==
    [][/\ (main.pc = "loop" /\ main.i <= Len(config) /\ main' # main) =>
            IsRegistered(RepoNameToContainerName(config[main.i].Name))
       /\ \A d \in DeployIds :
            (deploys[d].pc = "check1" /\ deploys'[d] # deploys[d]) =>
                IsRegistered(RepoNameToContainerName(deploys[d].repoName))]_vars

\* what holds instead: the names registered are the repository names of the
\* configuration as written there
RegisteredAreRepoNames ==
    DOMAIN containerStates = {config[i].Name : i \in 1..Len(config)}

\* ------------------------------------------------- activation and forward
\* the daemon holds the container running and not paused
Serving(name) ==
    dockerd[name].exists /\ dockerd[name].running /\ ~dockerd[name].paused

\* C26 (as claimed): from the return of EnsureContainerRunning to the
\* forwarding of the request the container stays running and not paused in
\* the daemon: no step taken while a handler waits to forward pauses or
\* stops a container that was serving.
C26_ServingUntilForwarded ==
    [][\A p \in Proxies :
         (/\ proxies[p].pc = "ensured" /\ proxies'[p].pc = "ensured"
          /\ Serving(proxies[p].id))
            => Serving(proxies[p].id)']_vars

\* the scheduler has paused the container of a handler that is about to
\* forward, in a pass that began after the handler was activated
PausedBeforeForward ==
    \E p \in Proxies :
        /\ proxies[p].pc = "ensured"
        /\ dockerd[proxies[p].id].paused
        /\ sched.pc = "pause_upd" /\ sched.cur = proxies[p].id

\* C27 (as claimed): when the scheduler issues a pause the entry's idle time
\* at that moment is at least the pause threshold, and when it issues a stop
\* at least the stop threshold; an entry used since the pass's snapshot is
\* not paused or stopped.
C27_DueWhenIssued ==
    [][(Len(sched'.issued) = Len(sched.issued) + 1) =>
         LET op == sched'.issued[Len(sched'.issued)]
             c == containerStates[op.name]
         IN  \/ c.LastUsed = Nil
             \/ now - c.LastUsed >= IF op.op = "stop" THEN 3600 ELSE 60]_vars

\* a pause was issued for an entry used at the very time of the pause
PausedJustUsed ==
    /\ sched.issued # <<>>
    /\ sched.issued[Len(sched.issued)].op = "pause"
    /\ sched.issued[Len(sched.issued)].err = ErrNone
    /\ sched.pc = "pause_upd"
    /\ containerStates[sched.cur].LastUsed = now

\* ------------------------------------------------------ cache and daemon
\* some goroutine has sent a request about container n and has not yet
\* written its answer to the cache, or has not yet sent the inspect that
\* follows its start
InFlightOn(n) ==
    \/ \E p \in Proxies :
         /\ proxies[p].id = n
         /\ proxies[p].pc \in {"inspect_upd", "unpause_upd", "start_inspect", "start_upd"}
    \/ sched.pc \in {"stop_upd", "pause_upd"} /\ sched.cur = n
    \/ main.pc = "upd" /\ RepoNameToContainerName(config[main.i].Name) = n
    \/ \E d \in DeployIds :
         /\ deploys[d].pc \notin {"free", "lock"}
         /\ RepoNameToContainerName(deploys[d].repoName) = n

\* C24 (as claimed): whenever no runtime operation on a container is in
\* flight and its entry is not stale, the entry's running and paused flags
\* are the daemon's.
C24_CacheIsLastAnswer ==
    \A n \in DOMAIN containerStates :
        (~InFlightOn(n) /\ ~IsStale(n)) =>
            /\ containerStates[n].Running = dockerd[n].running
            /\ containerStates[n].Paused = dockerd[n].paused

\* the cache differs from the daemon although every request so far was
\* answered without an error and nothing is in flight
MismatchWithoutFailure ==
    /\ main.pc = "serve"
    /\ \A p \in Proxies : proxies[p].err = ErrNone
    /\ \A i \in 1..Len(sched.issued) : sched.issued[i].err = ErrNone
    /\ \E n \in DOMAIN containerStates :
         /\ ~InFlightOn(n) /\ ~IsStale(n)
         /\ containerStates[n].LastUpdate > 0
         /\ \/ containerStates[n].Running # dockerd[n].running
            \/ containerStates[n].Paused # dockerd[n].paused

\* C25 (as claimed): in every state of the cache an entry that is paused is
\* running.
C25_PausedImpliesRunning ==
    \A n \in DOMAIN containerStates :
        containerStates[n].Paused => containerStates[n].Running

\* the scheduler at work while a signed push of RepoA's default branch is
\* deployed
NextRace ==
    \/ MainNext
    \/ HandleDelivery(1, PushA)
    \/ \E d \in DeployIds :
         \/ DeployStart(d) \/ DeployCheck1(d) \/ DeployCheck1Update(d)
         \/ DeployImages(d) \/ DeployMkdir(d) \/ DeployClone(d) \/ DeployBuild(d)
         \/ DeployStop(d) \/ DeployStopUpdate(d) \/ DeployRm(d) \/ DeployRun(d)
         \/ DeployCheck2(d) \/ DeployCheck2Update(d) \/ DeployPrune(d) \/ DeployPruned(d)
         \/ DeployRemoveAll(d) \/ DeployDefer(d) \/ DeployUnlock(d)
    \/ SchedNext
    \/ Tick

SpecRace == Init /\ [][NextRace]_vars

\* the scheduler's pause and the deploy's stop of the same container have
\* both been answered and written, the stop first
PausedAfterStop ==
    \E n \in DOMAIN containerStates :
        /\ containerStates[n].Paused /\ ~containerStates[n].Running
        /\ ~dockerd[n].running

\* ------------------------------------ cache.go, one lock statement at a time
\* the entry of BsAB when the goroutines start: refreshed at time 0, running
FirstEntry ==
    [EmptyState EXCEPT !.Running = TRUE, !.IPAddress = RunningContainer.ip,
                       !.LastUpdate = 0]

\* the four mutations of cache.go with the arguments init.go, battlesnake.go
\* and github.go pass to them
Mutations ==
    {[fn |-> "UpdateUsed", running |-> FALSE, paused |-> FALSE, ip |-> ""],
     [fn |-> "updateState", running |-> TRUE, paused |-> FALSE, ip |-> "10.0.0.9"],
     [fn |-> "updateState", running |-> TRUE, paused |-> TRUE, ip |-> RunningContainer.ip],
     [fn |-> "updateRunning", running |-> FALSE, paused |-> FALSE, ip |-> ""],
     [fn |-> "updatePaused", running |-> FALSE, paused |-> TRUE, ip |-> ""],
     [fn |-> "updatePaused", running |-> FALSE, paused |-> FALSE, ip |-> ""]}

\* what a mutation does to its copy `state` between the map read and the
\* map write
Mutate(name, state, m) ==
    LET one == [n \in {name} |-> state]
    IN  CASE m.fn = "UpdateUsed" -> UpdateUsed(one, name)[name]
          [] m.fn = "updateState" -> updateState(one, name, m.running, m.paused, m.ip)[name]
          [] m.fn = "updateRunning" -> updateRunning(one, name, m.running, m.paused)[name]
          [] m.fn = "updatePaused" -> updatePaused(one, name, m.paused)[name]

\* a mutex that lets every writer in
CanLockAlways(t) == TRUE

\* sync.RWMutex.Lock: no writer and no reader holds the mutex
CanLock(t) ==
    /\ containerStateMutext.writer = ""
    /\ containerStateMutext.readers = {}

\* a goroutine enters one of the mutations, CheckContainer or
\* stopOldContainersJob
ThreadBegin(t) ==
    /\ threads[t].pc = "idle"
    /\ \/ \E m \in Mutations :
            threads' = [threads EXCEPT ![t] =
                          [@ EXCEPT !.pc = "lock", !.fn = m.fn, !.name = BsAB, !.mut = m,
                                    !.cont = "done"]]
       \/ threads' = [threads EXCEPT ![t] =
                        [@ EXCEPT !.pc = "rlock", !.fn = "CheckContainer", !.name = BsAB,
                                  !.reading = "IsRegistered", !.action = "inspect"]]
       \/ threads' = [threads EXCEPT ![t] =
                        [@ EXCEPT !.pc = "rlock", !.fn = "stopOldContainersJob",
                                  !.reading = "IterContainers"]]
    /\ UNCHANGED <<config, containerStates, buildConfig, dockerd, dockerImages, now,
                   main, hooks, deploys, stats, proxies, sched, call,
                   containerStateMutext>>

\* cache.go:84-86, 101-103, 117-119, 133-135  Lock() and
\* `state, found := containerStates[name]`
ThreadLock(t) ==
    /\ threads[t].pc = "lock"
    /\ CanLock(t)
    /\ containerStateMutext' = [containerStateMutext EXCEPT !.writer = t]
    /\ threads' = [threads EXCEPT ![t] =
                     [@ EXCEPT !.pc = "store",
                               !.found = IsRegistered(threads[t].name),
                               !.state = IF IsRegistered(threads[t].name)
                                         THEN containerStates[threads[t].name]
                                         ELSE EmptyState]]
    /\ UNCHANGED <<config, containerStates, buildConfig, dockerd, dockerImages, now,
                   main, hooks, deploys, stats, proxies, sched, call>>

\* cache.go:87-98, 104-114, 120-129, 136-145  the changes to the copy,
\* `containerStates[name] = state` and the deferred Unlock()
ThreadStore(t) ==
    /\ threads[t].pc = "store"
    /\ containerStates' =
         IF threads[t].found
         THEN [containerStates EXCEPT ![threads[t].name] =
                 Mutate(threads[t].name, threads[t].state, threads[t].mut)]
         ELSE containerStates
    /\ containerStateMutext' =
         [containerStateMutext EXCEPT !.writer = IF @ = t THEN "" ELSE @]
    /\ threads' = [threads EXCEPT ![t] =
                     [@ EXCEPT !.pc = threads[t].cont,
                               !.err = IF threads[t].found THEN ErrNone
                                       ELSE ErrorNotRegistered]]
    /\ UNCHANGED <<config, buildConfig, dockerd, dockerImages, now,
                   main, hooks, deploys, stats, proxies, sched, call>>

\* cache.go:25, 49  RLock(): no writer holds the mutex
ThreadRLock(t) ==
    /\ threads[t].pc = "rlock"
    /\ containerStateMutext.writer = ""
    /\ containerStateMutext' = [containerStateMutext EXCEPT !.readers = @ \cup {t}]
    /\ threads' = [threads EXCEPT ![t] = [@ EXCEPT !.pc = "rheld"]]
    /\ UNCHANGED <<config, containerStates, buildConfig, dockerd, dockerImages, now,
                   main, hooks, deploys, stats, proxies, sched, call>>

\* a read section that returns without RUnlock()
ThreadRUnlockKeeps(t) ==
    /\ threads[t].pc = "rheld"
    /\ LET names == DOMAIN containerStates
           th == threads[t]
       IN  threads' = [threads EXCEPT ![t] =
             IF th.reading = "IterContainers"
             THEN [th EXCEPT !.pc = "loop",
                     !.toStop = {n \in names : Due(containerStates[n])
                                                 /\ containerStates[n].Paused},
                     !.toPause = {n \in names : Due(containerStates[n])
                                                  /\ ~containerStates[n].Paused}]
             ELSE IF IsRegistered(th.name) THEN [th EXCEPT !.pc = "request"]
             ELSE [th EXCEPT !.err = ErrorNotRegistered,
                             !.pc = IF th.fn = "CheckContainer" THEN "done" ELSE "loop"]]
    /\ UNCHANGED <<config, containerStates, buildConfig, dockerd, dockerImages, now,
                   main, hooks, deploys, stats, proxies, sched, call,
                   containerStateMutext>>

\* cache.go:24-30 IsRegistered and cache.go:48-57 IterContainers with the
\* callback of main.go:67-90: the reads under the read lock and the
\* deferred RUnlock()
ThreadRUnlock(t) ==
    /\ threads[t].pc = "rheld"
    /\ LET names == DOMAIN containerStates
           th == threads[t]
       IN  threads' = [threads EXCEPT ![t] =
             IF th.reading = "IterContainers"
             THEN [th EXCEPT !.pc = "loop",
                     !.toStop = {n \in names : Due(containerStates[n])
                                                 /\ containerStates[n].Paused},
                     !.toPause = {n \in names : Due(containerStates[n])
                                                  /\ ~containerStates[n].Paused}]
             ELSE IF IsRegistered(th.name) THEN [th EXCEPT !.pc = "request"]
             ELSE [th EXCEPT !.err = ErrorNotRegistered,
                             !.pc = IF th.fn = "CheckContainer" THEN "done" ELSE "loop"]]
    /\ containerStateMutext' = [containerStateMutext EXCEPT !.readers = @ \ {t}]
    /\ UNCHANGED <<config, containerStates, buildConfig, dockerd, dockerImages, now,
                   main, hooks, deploys, stats, proxies, sched, call>>

\* main.go:92-106  the next name of toStop, then of toPause: StopContainer
\* or PauseContainer begins with IsRegistered
ThreadLoop(t) ==
    /\ threads[t].pc = "loop"
    /\ \/ /\ threads[t].toStop # {}
          /\ \E n \in threads[t].toStop :
               threads' = [threads EXCEPT ![t] =
                             [@ EXCEPT !.pc = "rlock", !.reading = "IsRegistered",
                                       !.name = n, !.action = "stop",
                                       !.toStop = @ \ {n}]]
       \/ /\ threads[t].toStop = {} /\ threads[t].toPause # {}
          /\ \E n \in threads[t].toPause :
               threads' = [threads EXCEPT ![t] =
                             [@ EXCEPT !.pc = "rlock", !.reading = "IsRegistered",
                                       !.name = n, !.action = "pause",
                                       !.toPause = @ \ {n}]]
       \/ /\ threads[t].toStop = {} /\ threads[t].toPause = {}
          /\ threads' = [threads EXCEPT ![t] = [@ EXCEPT !.pc = "done"]]
    /\ UNCHANGED <<config, containerStates, buildConfig, dockerd, dockerImages, now,
                   main, hooks, deploys, stats, proxies, sched, call,
                   containerStateMutext>>

\* init.go:121-126 the inspection of CheckContainer, init.go:188, 200 the
\* command of StopContainer and PauseContainer: the request to the daemon
\* and its answer; an error returns, an answer goes on to the mutation
ThreadRequest(t) ==
    /\ threads[t].pc = "request"
    /\ \E fail \in BOOLEAN :
         LET th == threads[t]
             r == InspectResult(th.name, fail)
             err == IF th.action = "inspect" THEN r.err
                    ELSE dockerExecCmd(th.name, th.action, fail)
             back == IF th.fn = "CheckContainer" THEN "done" ELSE "loop"
             mut == CASE th.action = "inspect" ->
                           [fn |-> "updateState", running |-> r.Running,
                            paused |-> r.Paused, ip |-> r.ip]
                      [] th.action = "stop" ->
                           [fn |-> "updateRunning", running |-> FALSE, paused |-> FALSE,
                            ip |-> ""]
                      [] th.action = "pause" ->
                           [fn |-> "updatePaused", running |-> FALSE, paused |-> TRUE,
                            ip |-> ""]
         IN  /\ dockerd' = IF th.action = "inspect" THEN dockerd
                           ELSE CmdEffect(th.name, th.action, fail)
             /\ threads' = [threads EXCEPT ![t] =
                              IF err # ErrNone THEN [th EXCEPT !.pc = back, !.err = err]
                              ELSE [th EXCEPT !.pc = "lock", !.mut = mut, !.cont = back]]
    /\ UNCHANGED <<config, containerStates, buildConfig, dockerImages, now,
                   main, hooks, deploys, stats, proxies, sched, call,
                   containerStateMutext>>

InitLock ==
    /\ config = <<[Name |-> RepoA, Secret |-> "s1"]>>
    /\ containerStates = [n \in {BsAB} |-> FirstEntry]
    /\ buildConfig = Registered(config).bc
    /\ dockerd = [n \in ContainerNames |->
                    IF n = BsAB THEN RunningContainer ELSE NoContainer]
    /\ dockerImages = [r \in RepoNames |-> <<>>]
    /\ now = TickStep
    /\ main = [pc |-> "serve", i |-> 1, pend |-> NoInspect]
    /\ hooks = [h \in Hooks |-> IdleHook]
    /\ deploys = [d \in DeployIds |-> FreeDeploy]
    /\ stats = [r \in DOMAIN buildConfig |-> [started |-> 0, reruns |-> 0]]
    /\ proxies = [p \in Proxies |-> IdleProxy]
    /\ sched = IdleSched
    /\ call = IdleCall
    /\ containerStateMutext = [writer |-> "", readers |-> {}]
    /\ threads = [t \in Threads |-> IdleThread]

NextLock ==
    \E t \in Threads :
        \/ ThreadBegin(t) \/ ThreadLock(t) \/ ThreadStore(t)
        \/ ThreadRLock(t) \/ ThreadRUnlock(t) \/ ThreadLoop(t) \/ ThreadRequest(t)

SpecLock == InitLock /\ [][NextLock]_vars

\* the named mutation applied as one indivisible operation of cache.go
Applied(cs, name, m) ==
    CASE m.fn = "UpdateUsed" -> UpdateUsed(cs, name)
      [] m.fn = "updateState" -> updateState(cs, name, m.running, m.paused, m.ip)
      [] m.fn = "updateRunning" -> updateRunning(cs, name, m.running, m.paused)
      [] m.fn = "updatePaused" -> updatePaused(cs, name, m.paused)

\* the caches that the mutations of the goroutines in S produce from cs when
\* they are applied one after another, in every order
RECURSIVE OneAfterAnother(_, _)
OneAfterAnother(cs, S) ==
    IF S = {} THEN {cs}
    ELSE UNION {OneAfterAnother(Applied(cs, threads[t].name, threads[t].mut), S \ {t}) :
                  t \in S}

\* the goroutines that have returned, each from one of the four mutations
Mutators ==
    {t \in Threads : threads[t].pc = "done"
                     /\ threads[t].fn \in {m.fn : m \in Mutations}}

\* no goroutine is inside a function, and none ran anything but a mutation
OnlyMutationsRan ==
    \A t \in Threads : threads[t].pc = "idle" \/ t \in Mutators

\* C21: whenever the goroutines that ran, each one mutation of the entry of
\* the same container, have all returned, the cache is what their mutations
\* produce from the first entry applied one after another in some order
C21_NoLostUpdate ==
    OnlyMutationsRan =>
        containerStates \in OneAfterAnother([n \in {BsAB} |-> FirstEntry], Mutators)

\* three goroutines have returned from UpdateUsed, updateRunning and
\* updatePaused on the same entry, and the entry shows all three
C21_Witness ==
    /\ Mutators = Threads
    /\ {threads[t].mut.fn : t \in Threads} = {"UpdateUsed", "updateRunning", "updatePaused"}
    /\ containerStates[BsAB].LastUsed = now
    /\ ~containerStates[BsAB].Running
    /\ containerStates[BsAB].Paused

\* goroutine t holds the mutex, shared or exclusive
Holds(t) ==
    t \in containerStateMutext.readers \/ containerStateMutext.writer = t

\* goroutine t sends its request to the daemon in this step
Requests(t) ==
    threads[t].pc = "request" /\ threads'[t] # threads[t]

\* C22: a goroutine that sends a request to the daemon holds the cache mutex
\* neither shared nor exclusive; stopOldContainersJob sends its stop and
\* pause requests with the iteration over and its read lock released; and a
\* goroutine that waits for the mutex does not hold it itself
C22_NoRequestUnderLock ==
    [][ /\ \A t \in Threads : Requests(t) => ~Holds(t)
        /\ \A t \in Threads :
             (Requests(t) /\ threads[t].fn = "stopOldContainersJob")
                => /\ threads[t].reading = "IsRegistered"
                   /\ threads[t].action \in {"stop", "pause"}
                   /\ t \notin containerStateMutext.readers
        /\ \A t \in Threads : threads'[t].pc \in {"lock", "rlock"} => ~Holds(t)' ]_vars

\* stopOldContainersJob has sent its pause request, which the daemon
\* accepted, and now waits for the write lock while another goroutine is
\* inside a mutation
C22_Witness ==
    \E t \in Threads :
        /\ threads[t].fn = "stopOldContainersJob"
        /\ threads[t].pc = "lock" /\ threads[t].action = "pause"
        /\ dockerd[BsAB].paused
        /\ ~Holds(t)
        /\ containerStateMutext.writer \in Threads \ {t}

====
